---- MODULE Spec2Model ----
(***************************************************************************)
(* A model of bygui86/multi-profile (current lineage, profile.go:1-591):   *)
(* profiling sessions (Profile) around the Go runtime's profilers.  Every  *)
(* Go function of the package is an operator from a world (the session     *)
(* records, the runtime's process-wide profiling state, the file system,   *)
(* the output) to the world after it; Start, Stop and the interrupt        *)
(* listener are the actions.                                               *)
(***************************************************************************)
EXTENDS Integers, Sequences, FiniteSets, TLC

VARIABLES
    prof,       \* session id -> the Profile struct (profile.go:52-116)
    rt,         \* the Go runtime's process-wide profiling state
    dirs,       \* directories that exist
    files,      \* files that exist
    handles,    \* every os.File ever opened: <<path, open, data>>
    lst,        \* session id -> the interruptHook goroutines, by position
    tmpSeq,     \* temporary directories handed out by ioutil.TempDir
    alive,      \* the process is running
    ncalls,     \* Start/Stop calls made by the caller so far
    nsig,       \* signals delivered so far
    inflight,   \* session id -> the caller's goroutines inside Start or Stop, by position
    trace       \* history: every observable effect, in order

vars == <<prof, rt, dirs, files, handles, lst, tmpSeq, alive, ncalls, nsig, inflight, trace>>

(* the program's state proper (everything but the history and the call counters) *)
progVars == <<prof, rt, dirs, files, handles, lst, tmpSeq, alive>>

----------------------------------------------------------------------------
(* Bounds *)

(* the inputs the process gets: Start and Stop calls of the caller, signals *)
MaxCalls == 3

(* the options of a Config the caller sets to another value than the zero value *)
MaxOptions == 2

Sessions == {"A", "B"}

(* the sessions the caller of Spec builds and drives *)
Driven == {"A"}

----------------------------------------------------------------------------
(* Constants of the package (profile.go:17-49) *)

cpuMode == "CPU"
memMode == "Memory"
mutexMode == "Mutex"
blockMode == "Block"
traceMode == "Trace"
threadMode == "Thread"
goroutineMode == "Goroutine"

Modes == {cpuMode, memMode, mutexMode, blockMode, traceMode, threadMode, goroutineMode}

(* DefaultPath = "./" as path elements *)
DefaultPath == <<".">>

DefaultMemProfileRate == 4096

MemProfileHeap == "heap"
MemProfileAllocs == "allocs"
DefaultMemProfileType == MemProfileHeap

debugLevel == "debug"
infoLevel == "info"
warnLevel == "warn"
errorLevel == "error"
fatalLevel == "fatal"

(* the levels log and logf are called with *)
Levels == {debugLevel, infoLevel, warnLevel, errorLevel, fatalLevel}

(* nil for an os.File and for a func() *)
NilFile == 0
NilFunc == "nil"

----------------------------------------------------------------------------
(* The environment: the Go runtime and the file system *)

(* the knobs of a fresh process (runtime.MemProfileRate is 512 KiB) and the
   values the application may set them to *)
RuntimeKnobs == [mem |-> 512 * 1024, mutex |-> 0, block |-> 0]
AppKnobs == [mem |-> 2048, mutex |-> 5, block |-> 7]

(* the profiles runtime/pprof registers, as pprof.Lookup knows them *)
RegisteredProfiles == {"goroutine", "threadcreate", "heap", "allocs", "block", "mutex"}

(* directories no file or directory can be created in *)
ReadOnlyDirs == {<<"/">>, <<"/", "ro">>}

TmpRoot == <<"/", "tmp">>

(* the Config.Path values the caller uses: "", a directory to be created,
   a directory that cannot be created, an existing read-only directory *)
Paths == {<<>>, <<"out">>, <<"/", "private">>, <<"/", "ro">>}

(* filepath.Clean on path elements: "." elements vanish *)
Clean(p) == SelectSeq(p, LAMBDA c : c # "." /\ c # "")

(* filepath.Join(dir, name) *)
Join(dir, name) == Clean(dir \o <<name>>)

Parent(p) == SubSeq(p, 1, Len(p) - 1)

(* os.MkdirAll: the directories it creates, or failure *)
RECURSIVE MkdirAll(_, _)
MkdirAll(ds, p) ==
    LET c == Clean(p) IN
    IF c \in ds THEN [ok |-> TRUE, dirs |-> ds]
    ELSE IF Len(c) = 0 THEN [ok |-> FALSE, dirs |-> ds]
    ELSE LET up == MkdirAll(ds, Parent(c)) IN
         IF up.ok /\ Parent(c) \notin ReadOnlyDirs
         THEN [ok |-> TRUE, dirs |-> up.dirs \cup {c}]
         ELSE [ok |-> FALSE, dirs |-> up.dirs]

(* os.Create succeeds when the directory exists and can be written *)
CanCreate(ds, path) ==
    LET c == Clean(path) IN
    Len(c) > 0 /\ Parent(c) \in ds /\ Parent(c) \notin ReadOnlyDirs

----------------------------------------------------------------------------
(* The world the package's functions act on, and the history they leave.
   Every function of the package maps a world to the world after it; err is
   the error the last fallible call returned, panic that the call is
   unwinding. *)

World == [prof |-> prof, rt |-> rt, dirs |-> dirs, files |-> files,
          handles |-> handles, lst |-> lst, tmpSeq |-> tmpSeq,
          trace |-> trace, err |-> FALSE, panic |-> FALSE]

(* one observable effect: who (session), what, and its particulars *)
Event(s, ev, lvl, msg, path, n) ==
    [s |-> s, ev |-> ev, lvl |-> lvl, msg |-> msg, path |-> path, n |-> n]

Emit(w, e) == [w EXCEPT !.trace = Append(@, e)]

(* a call the package makes returns an error: err != nil *)
Fail(w, s, what) == Emit([w EXCEPT !.err = TRUE], Event(s, "fail", "", what, <<>>, 0))

(* a handle that can be written and closed: not nil, not yet closed *)
Usable(w, h) == h # NilFile /\ w.handles[h].open

(* File.Write through an io.Writer: an error on a nil or closed file *)
WriteFile(w, s, h, what) ==
    IF Usable(w, h)
    THEN Emit([w EXCEPT !.handles[h].data = Append(@, what), !.err = FALSE],
              Event(s, "write", "", what, w.handles[h].path, h))
    ELSE Fail(w, s, "WriteTo")

(* the write of a collector of the runtime when it stops: its error is
   dropped inside the runtime *)
RuntimeWrite(w, s, h, what) == IF Usable(w, h) THEN WriteFile(w, s, h, what) ELSE w

(* File.Close: an error on a nil or closed file *)
CloseFile(w, s, h) ==
    IF Usable(w, h)
    THEN Emit([w EXCEPT !.handles[h].open = FALSE, !.err = FALSE],
              Event(s, "close", "", "", w.handles[h].path, h))
    ELSE Fail(w, s, "Close")

(* pprof.Lookup: nil for a name the runtime does not register *)
Lookup(name) == name \in RegisteredProfiles

(* the error the last failed call returned (the value of err) *)
LastErr(w) ==
    LET F == {k \in 1..Len(w.trace) : w.trace[k].ev = "fail"} IN
    IF F = {} THEN "" ELSE w.trace[CHOOSE k \in F : \A j \in F : j <= k].msg

(* panic(err): the call unwinds; what was done so far stays done *)
Panic(w, s) == [Emit(w, Event(s, "panic", "", LastErr(w), <<>>, 0)) EXCEPT !.panic = TRUE]

----------------------------------------------------------------------------
(* Logging (profile.go:545-591) *)

(* a switch on the level without the case of warnLevel *)
LoggerMethod_NoWarn(level) ==
    CASE level = debugLevel -> "logger.Debug"
      [] level = infoLevel -> "logger.Info"
      [] level = errorLevel -> "logger.Error"
      [] level = fatalLevel -> "logger.Fatal"
      [] OTHER -> "logger.Info"

(* switch level { ... }: the method of the injected logger for a level *)
LoggerMethod(level) ==
    CASE level = debugLevel -> "logger.Debug"
      [] level = infoLevel -> "logger.Info"
      [] level = warnLevel -> "logger.Warn"
      [] level = errorLevel -> "logger.Error"
      [] level = fatalLevel -> "logger.Fatal"
      [] OTHER -> "logger.Info"

(* logf that does not consult quiet *)
logf_IgnoresQuiet(w, s, level, msg, path, n) ==
    Emit(w, Event(s, IF w.prof[s].logger THEN LoggerMethod(level) \o "f" ELSE "stdout",
                  level, msg, path, n))

(* logf: nothing when quiet; the injected logger's formatted method of the
   level; otherwise one line "[level] message" on standard output *)
logf(w, s, level, msg, path, n) ==
    IF ~w.prof[s].quiet
    THEN IF w.prof[s].logger
         THEN Emit(w, Event(s, LoggerMethod(level) \o "f", level, msg, path, n))
         ELSE Emit(w, Event(s, "stdout", level, msg, path, n))
    ELSE w

(* log: as logf, with the injected logger's plain method *)
log(w, s, level, msg) ==
    IF ~w.prof[s].quiet
    THEN IF w.prof[s].logger
         THEN Emit(w, Event(s, LoggerMethod(level), level, msg, <<>>, 0))
         ELSE Emit(w, Event(s, "stdout", level, msg, <<>>, 0))
    ELSE w

(* if err != nil { p.logf(errorLevel, ...) } *)
logIfErr(w, s, msg, path) ==
    IF w.err /\ ~w.panic THEN logf(w, s, errorLevel, msg, path, 0) ELSE w

(* a check that panics on every error *)
panicIfFail_Always(w, s) ==
    IF w.err THEN Panic(w, s) ELSE w

(* a check that never panics *)
panicIfFail_Never(w, s) == w

(* if err != nil { ...; if p.panicIfFail { panic(err) } } *)
panicIfFail(w, s) ==
    IF w.err /\ w.prof[s].panicIfFail THEN Panic(w, s) ELSE w

----------------------------------------------------------------------------
(* Path and file preparation (profile.go:460-543) *)

(* prepareCustomPath: an empty path becomes DefaultPath; any other path but
   DefaultPath is created with its parents *)
prepareCustomPath(w, s) ==
    LET path == IF w.prof[s].path = <<>> THEN DefaultPath ELSE w.prof[s].path
        mk == MkdirAll(w.dirs, path) IN
    IF path # DefaultPath
    THEN IF mk.ok
         THEN [w EXCEPT !.prof[s].path = path, !.dirs = mk.dirs, !.err = FALSE]
         ELSE Fail([w EXCEPT !.prof[s].path = path, !.dirs = mk.dirs], s, "MkdirAll")
    ELSE [w EXCEPT !.prof[s].path = path, !.err = FALSE]

(* prepareTempPath: p.path, err = ioutil.TempDir("", "profile_"); tmpOk is
   whether the system can make the directory; on failure the path is "" *)
prepareTempPath(w, s, tmpOk) ==
    LET d == TmpRoot \o <<"profile_" \o ToString(w.tmpSeq + 1)>> IN
    IF tmpOk
    THEN [w EXCEPT !.prof[s].path = d, !.dirs = @ \cup {d}, !.tmpSeq = @ + 1, !.err = FALSE]
    ELSE Fail([w EXCEPT !.prof[s].path = <<>>], s, "TempDir")

(* the choice of preparePath between the two *)
prepareDir(w, s, tmpOk) ==
    IF w.prof[s].useTempPath THEN prepareTempPath(w, s, tmpOk) ELSE prepareCustomPath(w, s)

(* preparePath: the error is logged and, with panicIfFail, panics; without
   it Start goes on *)
preparePath(w, s, tmpOk) ==
    panicIfFail(logIfErr(prepareDir(w, s, tmpOk), s,
                         "start aborted, could not create output directory", <<>>), s)

(* p.filePath = filepath.Join(p.path, p.fileName); p.file, err = os.Create(p.filePath):
   a new handle on the created or truncated file, or nil and an error *)
osCreate(w, s) ==
    LET fp == Join(w.prof[s].path, w.prof[s].fileName)
        h == Len(w.handles) + 1 IN
    IF CanCreate(w.dirs, fp)
    THEN Emit([w EXCEPT !.prof[s].filePath = fp, !.prof[s].file = h,
                        !.files = @ \cup {fp},
                        !.handles = Append(@, [path |-> fp, open |-> TRUE, data |-> <<>>]),
                        !.err = FALSE],
              Event(s, "create", "", "", fp, h))
    ELSE Fail([w EXCEPT !.prof[s].filePath = fp, !.prof[s].file = NilFile], s, "Create")

(* createFile: the error is logged and, with panicIfFail, panics *)
createFile(w, s) ==
    panicIfFail(logIfErr(osCreate(w, s), s, "file creation failed",
                         Join(w.prof[s].path, w.prof[s].fileName)), s)

----------------------------------------------------------------------------
(* The runtime's collectors and knobs, as the package calls them *)

(* pprof.StartCPUProfile(p.file): an error when CPU profiling is already on *)
StartCPUProfile(w, s) ==
    IF w.rt.cpu.on THEN Fail(w, s, "StartCPUProfile")
    ELSE Emit([w EXCEPT !.rt.cpu = [on |-> TRUE, file |-> w.prof[s].file], !.err = FALSE],
              Event(s, "rt", "", "StartCPUProfile", <<>>, w.prof[s].file))

(* pprof.StopCPUProfile: the collector, whoever started it, writes out and stops *)
StopCPUProfile(w, s) ==
    IF w.rt.cpu.on
    THEN Emit([RuntimeWrite(w, s, w.rt.cpu.file, "cpu")
                  EXCEPT !.rt.cpu = [on |-> FALSE, file |-> NilFile]],
              Event(s, "rt", "", "StopCPUProfile", <<>>, w.rt.cpu.file))
    ELSE w

(* trace.Start(p.file): an error when tracing is already on *)
TraceStart(w, s) ==
    IF w.rt.trace.on THEN Fail(w, s, "trace.Start")
    ELSE Emit([w EXCEPT !.rt.trace = [on |-> TRUE, file |-> w.prof[s].file], !.err = FALSE],
              Event(s, "rt", "", "trace.Start", <<>>, w.prof[s].file))

(* trace.Stop *)
TraceStop(w, s) ==
    IF w.rt.trace.on
    THEN Emit([RuntimeWrite(w, s, w.rt.trace.file, "trace")
                  EXCEPT !.rt.trace = [on |-> FALSE, file |-> NilFile]],
              Event(s, "rt", "", "trace.Stop", <<>>, w.rt.trace.file))
    ELSE w

(* runtime.MemProfileRate = r *)
SetMemProfileRate(w, s, r) ==
    Emit([w EXCEPT !.rt.MemProfileRate = r], Event(s, "rt", "", "MemProfileRate", <<>>, r))

(* runtime.SetMutexProfileFraction(r) *)
SetMutexProfileFraction(w, s, r) ==
    Emit([w EXCEPT !.rt.mutexFraction = r], Event(s, "rt", "", "SetMutexProfileFraction", <<>>, r))

(* runtime.SetBlockProfileRate(r) *)
SetBlockProfileRate(w, s, r) ==
    Emit([w EXCEPT !.rt.blockRate = r], Event(s, "rt", "", "SetBlockProfileRate", <<>>, r))

----------------------------------------------------------------------------
(* The kind-specific starts (profile.go:287-369) *)

(* p.internalCloser = <the stop of the kind>; p.logf(infoLevel, "... enabled ...");
   the memory message carries runtime.MemProfileRate *)
enabled(w, s, closer) ==
    IF w.panic THEN w
    ELSE logf([w EXCEPT !.prof[s].internalCloser = closer], s, infoLevel, "enabled",
              w.prof[s].filePath,
              IF w.prof[s].mode = memMode THEN w.rt.MemProfileRate ELSE 0)

(* startCpuMode after createFile: a failed start is logged, panics with
   panicIfFail, and otherwise the session goes on as if started *)
cpuStart(w, s) ==
    IF w.panic THEN w
    ELSE enabled(panicIfFail(logIfErr(StartCPUProfile(w, s), s, "start failed", <<>>), s),
                 s, "stopCpuMode")

startCpuMode(w, s) == cpuStart(createFile(w, s), s)

(* startMemMode that saves the rate after it has replaced it *)
memStart_SavesAfter(w, s) ==
    IF w.panic THEN w
    ELSE enabled(SetMemProfileRate(
                    [w EXCEPT !.prof[s].previousMemProfileRate = w.prof[s].memProfileRate],
                    s, w.prof[s].memProfileRate),
                 s, "stopMemMode")

(* startMemMode after createFile: the rate in force is saved, then replaced *)
memStart(w, s) ==
    IF w.panic THEN w
    ELSE enabled(SetMemProfileRate(
                    [w EXCEPT !.prof[s].previousMemProfileRate = w.rt.MemProfileRate],
                    s, w.prof[s].memProfileRate),
                 s, "stopMemMode")

startMemMode(w, s) == memStart(createFile(w, s), s)

mutexStart(w, s) ==
    IF w.panic THEN w ELSE enabled(SetMutexProfileFraction(w, s, 1), s, "stopMutexMode")

startMutexMode(w, s) == mutexStart(createFile(w, s), s)

blockStart(w, s) ==
    IF w.panic THEN w ELSE enabled(SetBlockProfileRate(w, s, 1), s, "stopBlockMode")

startBlockMode(w, s) == blockStart(createFile(w, s), s)

traceStart(w, s) ==
    IF w.panic THEN w
    ELSE enabled(panicIfFail(logIfErr(TraceStart(w, s), s, "start failed", <<>>), s),
                 s, "stopTraceMode")

startTraceMode(w, s) == traceStart(createFile(w, s), s)

startThreadCreationMode(w, s) == enabled(createFile(w, s), s, "stopThreadCreationMode")

startGoroutineMode(w, s) == enabled(createFile(w, s), s, "stopGoroutineMode")

----------------------------------------------------------------------------
(* The kind-specific stops (profile.go:371-423, 474-496) *)

(* p.file.Close() *)
closeFile(w, s) == CloseFile(w, s, w.prof[s].file)

(* pprof.Lookup(p.lookupName) and WriteTo(p.file): a failed write and a
   missing profile are logged *)
writeSnapshot(w, s) ==
    IF Lookup(w.prof[s].lookupName)
    THEN logIfErr(WriteFile(w, s, w.prof[s].file, w.prof[s].lookupName),
                  s, "flush failed", w.prof[s].filePath)
    ELSE logf(Fail(w, s, "Lookup"), s, errorLevel, "lookup returned nil profile",
              w.prof[s].filePath, 0)

(* stopAndFlush that returns when the profile is missing *)
stopAndFlush_ReturnsOnNil(w, s) ==
    IF Lookup(w.prof[s].lookupName)
    THEN logf(logIfErr(closeFile(writeSnapshot(
                         logf(w, s, infoLevel, "stop and flush", w.prof[s].filePath, 0), s), s),
                       s, "flush failed", w.prof[s].filePath),
              s, infoLevel, "disabled", <<>>, 0)
    ELSE writeSnapshot(logf(w, s, infoLevel, "stop and flush", w.prof[s].filePath, 0), s)

(* stopAndFlush: write the snapshot, close the file, report; every failure
   is logged and the function goes on *)
stopAndFlush(w, s) ==
    logf(logIfErr(closeFile(writeSnapshot(
                     logf(w, s, infoLevel, "stop and flush", w.prof[s].filePath, 0), s), s),
                  s, "flush failed", w.prof[s].filePath),
         s, infoLevel, "disabled", <<>>, 0)

stopCpuMode(w, s) ==
    log(logIfErr(closeFile(StopCPUProfile(
                    logf(w, s, infoLevel, "stop and flush", w.prof[s].filePath, 0), s), s),
                 s, "flush failed", w.prof[s].filePath),
        s, infoLevel, "disabled")

(* a restore that gives the rate of a fresh process *)
restoreMemProfileRate_ToFresh(w, s) ==
    [SetMemProfileRate(w, s, RuntimeKnobs.mem) EXCEPT !.prof[s].previousMemProfileRate = -1]

(* runtime.MemProfileRate = p.previousMemProfileRate; p.previousMemProfileRate = -1 *)
restoreMemProfileRate(w, s) ==
    [SetMemProfileRate(w, s, w.prof[s].previousMemProfileRate)
        EXCEPT !.prof[s].previousMemProfileRate = -1]

(* a memory stop that restores the rate before it writes the snapshot *)
stopMemMode_RestoresFirst(w, s) == stopAndFlush(restoreMemProfileRate(w, s), s)

stopMemMode(w, s) == restoreMemProfileRate(stopAndFlush(w, s), s)

stopMutexMode(w, s) == SetMutexProfileFraction(stopAndFlush(w, s), s, 0)

(* a block stop that resets the mutex knob *)
stopBlockMode_ResetsMutex(w, s) == SetMutexProfileFraction(stopAndFlush(w, s), s, 0)

stopBlockMode(w, s) == SetBlockProfileRate(stopAndFlush(w, s), s, 0)

(* stopTraceMode: the file is left open *)
stopTraceMode(w, s) ==
    log(TraceStop(logf(w, s, infoLevel, "stop and flush", w.prof[s].filePath, 0), s),
        s, infoLevel, "disabled")

stopThreadCreationMode(w, s) == stopAndFlush(w, s)

stopGoroutineMode(w, s) == stopAndFlush(w, s)

(* the closure Start installed in p.internalCloser *)
runCloser(w, s) ==
    CASE w.prof[s].internalCloser = "stopCpuMode" -> stopCpuMode(w, s)
      [] w.prof[s].internalCloser = "stopMemMode" -> stopMemMode(w, s)
      [] w.prof[s].internalCloser = "stopMutexMode" -> stopMutexMode(w, s)
      [] w.prof[s].internalCloser = "stopBlockMode" -> stopBlockMode(w, s)
      [] w.prof[s].internalCloser = "stopTraceMode" -> stopTraceMode(w, s)
      [] w.prof[s].internalCloser = "stopThreadCreationMode" -> stopThreadCreationMode(w, s)
      [] w.prof[s].internalCloser = "stopGoroutineMode" -> stopGoroutineMode(w, s)

(* if p.internalCloser != nil { p.internalCloser() } *)
internalCloser(w, s) ==
    IF w.prof[s].internalCloser # NilFunc
    THEN runCloser(Emit(w, Event(s, "closer", "", w.prof[s].internalCloser, <<>>, 0)), s)
    ELSE w

(* if p.closerHook != nil { p.closerHook() }: the caller's function; the
   package knows only that it ran *)
closerHook(w, s) ==
    IF w.prof[s].closerHook THEN Emit(w, Event(s, "hook", "", "", <<>>, 0)) ELSE w

----------------------------------------------------------------------------
(* The interrupt hook (profile.go:425-441) *)

NoListeners == [spawned |-> 0, registered |-> 0, parked |-> 0, caught |-> 0]

(* go p.interruptHook() *)
spawn(w, s) == Emit([w EXCEPT !.lst[s].spawned = @ + 1], Event(s, "spawn", "", "", <<>>, 0))

(* startInterruptHook: with enableInterruptHook, log and start the goroutine *)
startInterruptHook(w, s) ==
    IF ~w.panic /\ w.prof[s].enableInterruptHook
    THEN spawn(logf(w, s, infoLevel, "start interrupt hook", <<>>, 0), s)
    ELSE w

----------------------------------------------------------------------------
(* Start and Stop (profile.go:231-285) *)

startMode(w, s) ==
    IF w.panic THEN w
    ELSE CASE w.prof[s].mode = cpuMode -> startCpuMode(w, s)
           [] w.prof[s].mode = memMode -> startMemMode(w, s)
           [] w.prof[s].mode = mutexMode -> startMutexMode(w, s)
           [] w.prof[s].mode = blockMode -> startBlockMode(w, s)
           [] w.prof[s].mode = traceMode -> startTraceMode(w, s)
           [] w.prof[s].mode = threadMode -> startThreadCreationMode(w, s)
           [] w.prof[s].mode = goroutineMode -> startGoroutineMode(w, s)

(* the part of the start of a kind that follows createFile: the collector
   or the knob, the stop closure, the 'enabled' message *)
collectorStart(w, s) ==
    IF w.panic THEN w
    ELSE CASE w.prof[s].mode = cpuMode -> cpuStart(w, s)
           [] w.prof[s].mode = memMode -> memStart(w, s)
           [] w.prof[s].mode = mutexMode -> mutexStart(w, s)
           [] w.prof[s].mode = blockMode -> blockStart(w, s)
           [] w.prof[s].mode = traceMode -> traceStart(w, s)
           [] w.prof[s].mode = threadMode -> enabled(w, s, "stopThreadCreationMode")
           [] w.prof[s].mode = goroutineMode -> enabled(w, s, "stopGoroutineMode")

(* a Start that launches the listener before the start of the kind *)
startWork_HookFirst(w, s, tmpOk) ==
    startMode(startInterruptHook(preparePath(w, s, tmpOk), s), s)

(* what Start does once it has won the compare-and-swap *)
startWork(w, s, tmpOk) == startInterruptHook(startMode(preparePath(w, s, tmpOk), s), s)

(* what Stop does once it has won the compare-and-swap *)
stopWork(w, s) == closerHook(internalCloser(w, s), s)

(* history: a call of op on s by the caller or the listener begins, having
   won or lost its compare-and-swap, and ends, returning or panicking *)
Called(w, s, op, by, won) == Emit(w, Event(s, op, by, IF won THEN "win" ELSE "noop", <<>>, 0))

Returned(w, s, by) == Emit(w, Event(s, "ret", by, IF w.panic THEN "panic" ELSE "ok", <<>>, 0))

(* a Start that tests the flag and does not set it *)
beginStart_NoSwap(w, s) ==
    IF w.prof[s].started # 0
    THEN Returned(Called(w, s, "Start", "caller", FALSE), s, "caller")
    ELSE Called(w, s, "Start", "caller", TRUE)

(* the first statement of Start, one atomic instruction:
   if !atomic.CompareAndSwapUint32(&p.started, 0, 1) { return p } *)
beginStart(w, s) ==
    IF w.prof[s].started # 0
    THEN Returned(Called(w, s, "Start", "caller", FALSE), s, "caller")
    ELSE Called([w EXCEPT !.prof[s].started = 1], s, "Start", "caller", TRUE)

(* the first statement of Stop:
   if !atomic.CompareAndSwapUint32(&p.started, 1, 0) { return } *)
beginStop(w, s) ==
    IF w.prof[s].started # 1
    THEN Returned(Called(w, s, "Stop", "caller", FALSE), s, "caller")
    ELSE Called([w EXCEPT !.prof[s].started = 0], s, "Stop", "caller", TRUE)

(* Start that does the work whatever the flag holds *)
ProfileStart_NoGuard(w, s, by, tmpOk) ==
    Returned(startWork(Called([w EXCEPT !.prof[s].started = 1], s, "Start", by, TRUE),
                       s, tmpOk), s, by)

(* Profile.Start: CompareAndSwapUint32(&p.started, 0, 1), then the work *)
ProfileStart(w, s, by, tmpOk) ==
    IF w.prof[s].started # 0
    THEN Returned(Called(w, s, "Start", by, FALSE), s, by)
    ELSE Returned(startWork(Called([w EXCEPT !.prof[s].started = 1], s, "Start", by, TRUE),
                            s, tmpOk), s, by)

(* Stop that does the work whatever the flag holds *)
ProfileStop_NoGuard(w, s, by) ==
    Returned(stopWork(Called([w EXCEPT !.prof[s].started = 0], s, "Stop", by, TRUE), s), s, by)

(* Stop that tests the flag and leaves it set *)
ProfileStop_NoReset(w, s, by) ==
    IF w.prof[s].started # 1
    THEN Returned(Called(w, s, "Stop", by, FALSE), s, by)
    ELSE Returned(stopWork(Called(w, s, "Stop", by, TRUE), s), s, by)

(* Profile.Stop: CompareAndSwapUint32(&p.started, 1, 0), then the work *)
ProfileStop(w, s, by) ==
    IF w.prof[s].started # 1
    THEN Returned(Called(w, s, "Stop", by, FALSE), s, by)
    ELSE Returned(stopWork(Called([w EXCEPT !.prof[s].started = 0], s, "Stop", by, TRUE), s),
                  s, by)

(* a listener that runs the stop work itself, without Stop's compare-and-swap *)
interruptHook_NoCAS(w, s) ==
    Returned(stopWork(Called(logf(w, s, warnLevel, "caught interrupt signal", <<>>, 0),
                             s, "Stop", "listener", TRUE), s), s, "listener")

(* interruptHook, after the signal has been received: warn, Stop, retire *)
interruptHook(w, s) ==
    ProfileStop(logf(w, s, warnLevel, "caught interrupt signal", <<>>, 0), s, "listener")

----------------------------------------------------------------------------
(* The constructors (profile.go:182-229, 443-458) *)

(* the Config values the caller builds sessions from; CloserHook and Logger
   are whether the caller supplied one *)
AllConfigs ==
    [Path : Paths, UseTempPath : BOOLEAN, PanicIfFail : BOOLEAN,
     EnableInterruptHook : BOOLEAN, Quiet : BOOLEAN,
     MemProfileRate : {0, 1024}, MemProfileType : {"", MemProfileAllocs},
     CloserHook : BOOLEAN, Logger : BOOLEAN]

(* the zero value of Config: &profile.Config{} *)
ZeroConfig ==
    [Path |-> <<>>, UseTempPath |-> FALSE, PanicIfFail |-> FALSE,
     EnableInterruptHook |-> FALSE, Quiet |-> FALSE,
     MemProfileRate |-> 0, MemProfileType |-> "",
     CloserHook |-> FALSE, Logger |-> FALSE]

OptionsSet(cfg) == {f \in DOMAIN cfg : cfg[f] # ZeroConfig[f]}

Configs == {cfg \in AllConfigs : Cardinality(OptionsSet(cfg)) <= MaxOptions}

(* a session that has not been built *)
NoProfile ==
    [mode |-> "none", lookupName |-> "", path |-> <<>>, useTempPath |-> FALSE,
     fileName |-> "", filePath |-> <<>>, file |-> NilFile, panicIfFail |-> FALSE,
     enableInterruptHook |-> FALSE, quiet |-> FALSE, memProfileRate |-> 0,
     memProfileType |-> "", internalCloser |-> NilFunc, closerHook |-> FALSE,
     logger |-> FALSE, previousMemProfileRate |-> 0, started |-> 0]

(* buildProfile that leaves the closer hook out *)
buildProfile_NoCloserHook(mode, lookupName, fileName, cfg) ==
    [NoProfile EXCEPT !.mode = mode, !.lookupName = lookupName, !.path = cfg.Path,
                      !.useTempPath = cfg.UseTempPath, !.fileName = fileName,
                      !.panicIfFail = cfg.PanicIfFail,
                      !.enableInterruptHook = cfg.EnableInterruptHook,
                      !.quiet = cfg.Quiet, !.logger = cfg.Logger, !.started = 0]

(* buildProfile that resolves the file path at construction *)
buildProfile_ResolvesPath(mode, lookupName, fileName, cfg) ==
    [NoProfile EXCEPT !.mode = mode, !.lookupName = lookupName, !.path = cfg.Path,
                      !.useTempPath = cfg.UseTempPath, !.fileName = fileName,
                      !.filePath = Join(cfg.Path, fileName),
                      !.panicIfFail = cfg.PanicIfFail,
                      !.enableInterruptHook = cfg.EnableInterruptHook,
                      !.quiet = cfg.Quiet, !.logger = cfg.Logger,
                      !.closerHook = cfg.CloserHook, !.started = 0]

buildProfile(mode, lookupName, fileName, cfg) ==
    [NoProfile EXCEPT !.mode = mode, !.lookupName = lookupName, !.path = cfg.Path,
                      !.useTempPath = cfg.UseTempPath, !.fileName = fileName,
                      !.panicIfFail = cfg.PanicIfFail,
                      !.enableInterruptHook = cfg.EnableInterruptHook,
                      !.quiet = cfg.Quiet, !.logger = cfg.Logger,
                      !.closerHook = cfg.CloserHook, !.started = 0]

CPUProfile(cfg) == buildProfile(cpuMode, "", "cpu.pprof", cfg)

(* MemProfile that takes every rate but 0 *)
MemProfile_NonZeroRate(cfg) ==
    LET memRate == IF cfg.MemProfileRate # 0 THEN cfg.MemProfileRate ELSE DefaultMemProfileRate
        memType == IF cfg.MemProfileType # "" THEN cfg.MemProfileType ELSE DefaultMemProfileType IN
    [buildProfile(memMode, memType, "mem.pprof", cfg)
        EXCEPT !.memProfileRate = memRate, !.memProfileType = memType]

MemProfile(cfg) ==
    LET memRate == IF cfg.MemProfileRate > 0 THEN cfg.MemProfileRate ELSE DefaultMemProfileRate
        memType == IF cfg.MemProfileType # "" THEN cfg.MemProfileType ELSE DefaultMemProfileType IN
    [buildProfile(memMode, memType, "mem.pprof", cfg)
        EXCEPT !.memProfileRate = memRate, !.memProfileType = memType]

(* the mutex kind writing to the file of the block kind *)
MutexProfile_BlockFile(cfg) == buildProfile(mutexMode, "mutex", "block.pprof", cfg)

MutexProfile(cfg) == buildProfile(mutexMode, "mutex", "mutex.pprof", cfg)

BlockProfile(cfg) == buildProfile(blockMode, "block", "block.pprof", cfg)

TraceProfile(cfg) == buildProfile(traceMode, "", "trace.pprof", cfg)

(* the thread kind under the names of the runtime's profile *)
ThreadCreationProfile_OldName(cfg) ==
    buildProfile(threadMode, "threadcreate", "threadcreate.pprof", cfg)

ThreadCreationProfile(cfg) == buildProfile(threadMode, "thread", "thread.pprof", cfg)

GoroutineProfile(cfg) == buildProfile(goroutineMode, "goroutine", "goroutine.pprof", cfg)

(* the constructor of a kind *)
NewProfile(mode, cfg) ==
    CASE mode = cpuMode -> CPUProfile(cfg)
      [] mode = memMode -> MemProfile(cfg)
      [] mode = mutexMode -> MutexProfile(cfg)
      [] mode = blockMode -> BlockProfile(cfg)
      [] mode = traceMode -> TraceProfile(cfg)
      [] mode = threadMode -> ThreadCreationProfile(cfg)
      [] mode = goroutineMode -> GoroutineProfile(cfg)

----------------------------------------------------------------------------
(* The state machine *)

(* no goroutine of the caller is inside Start or Stop *)
NoCalls == [preparePath |-> 0, createFile |-> 0, startMode |-> 0,
            startInterruptHook |-> 0, stopWork |-> 0]

Init ==
    /\ prof = [s \in Sessions |-> NoProfile]
    /\ rt = [MemProfileRate |-> RuntimeKnobs.mem, mutexFraction |-> RuntimeKnobs.mutex,
             blockRate |-> RuntimeKnobs.block,
             cpu |-> [on |-> FALSE, file |-> NilFile],
             trace |-> [on |-> FALSE, file |-> NilFile]]
    /\ dirs = {<<>>, <<"/">>, <<"/", "ro">>, TmpRoot}
    /\ files = {}
    /\ handles = <<>>
    /\ lst = [s \in Sessions |-> NoListeners]
    /\ tmpSeq = 0
    /\ alive = TRUE
    /\ ncalls = 0
    /\ nsig = 0
    /\ inflight = [s \in Sessions |-> NoCalls]
    /\ trace = <<>>

(* the variables after a function of the package has run *)
Becomes(w) ==
    /\ prof' = w.prof
    /\ rt' = w.rt
    /\ dirs' = w.dirs
    /\ files' = w.files
    /\ handles' = w.handles
    /\ lst' = w.lst
    /\ tmpSeq' = w.tmpSeq
    /\ trace' = w.trace

Built(s) == prof[s].mode # "none"

(* the caller builds session s *)
Construct(s) ==
    /\ alive /\ ~Built(s)
    /\ \E mode \in Modes, cfg \in Configs :
         /\ prof' = [prof EXCEPT ![s] = NewProfile(mode, cfg)]
         /\ trace' = Append(trace, Event(s, "construct", "", mode, <<>>, 0))
    /\ UNCHANGED <<rt, dirs, files, handles, lst, tmpSeq, alive, ncalls, nsig, inflight>>

(* the application itself sets the runtime's knobs (runtime.MemProfileRate,
   runtime.SetMutexProfileFraction, runtime.SetBlockProfileRate) *)
AppSetKnobs ==
    /\ alive /\ ncalls + nsig < MaxCalls
    /\ rt' = [rt EXCEPT !.MemProfileRate = AppKnobs.mem, !.mutexFraction = AppKnobs.mutex,
                        !.blockRate = AppKnobs.block]
    /\ rt' # rt
    /\ ncalls' = ncalls + 1
    /\ trace' = Append(trace, Event("", "app", "", "knobs", <<>>, 0))
    /\ UNCHANGED <<prof, dirs, files, handles, lst, tmpSeq, alive, nsig, inflight>>

(* the application itself starts a collector of the runtime, writing to a
   writer of its own (pprof.StartCPUProfile, trace.Start), before it uses
   the package *)
AppStartsCollector ==
    /\ alive /\ ncalls + nsig = 0 /\ \A s \in Sessions : ~Built(s)
    /\ \E c \in {"cpu", "trace"} :
         /\ ~rt[c].on
         /\ rt' = [rt EXCEPT ![c] = [on |-> TRUE, file |-> NilFile]]
         /\ trace' = Append(trace, Event("", "appstart", "", c, <<>>, 0))
    /\ ncalls' = ncalls + 1
    /\ UNCHANGED <<prof, dirs, files, handles, lst, tmpSeq, alive, nsig, inflight>>

(* the caller calls p.Start(); a panic either ends the process or is
   recovered by the caller *)
Start(s) ==
    /\ alive /\ Built(s) /\ ncalls + nsig < MaxCalls
    /\ \E tmpOk \in (IF prof[s].useTempPath /\ prof[s].started = 0 THEN BOOLEAN ELSE {TRUE}) :
         LET w == ProfileStart(World, s, "caller", tmpOk) IN
         /\ Becomes(w)
         /\ alive' \in (IF w.panic THEN BOOLEAN ELSE {TRUE})
    /\ ncalls' = ncalls + 1
    /\ UNCHANGED <<nsig, inflight>>

(* the caller calls p.Stop() *)
Stop(s) ==
    /\ alive /\ Built(s) /\ ncalls + nsig < MaxCalls
    /\ Becomes(ProfileStop(World, s, "caller"))
    /\ ncalls' = ncalls + 1
    /\ UNCHANGED <<alive, nsig, inflight>>

(* a spawned interruptHook goroutine reaches signal.Notify *)
ListenerRegister(s) ==
    /\ alive /\ lst[s].spawned > 0
    /\ lst' = [lst EXCEPT ![s].spawned = @ - 1, ![s].registered = @ + 1]
    /\ UNCHANGED <<prof, rt, dirs, files, handles, tmpSeq, alive, ncalls, nsig, inflight, trace>>

(* a registered interruptHook goroutine blocks in the receive *)
ListenerPark(s) ==
    /\ alive /\ lst[s].registered > 0
    /\ lst' = [lst EXCEPT ![s].registered = @ - 1, ![s].parked = @ + 1]
    /\ UNCHANGED <<prof, rt, dirs, files, handles, tmpSeq, alive, ncalls, nsig, inflight, trace>>

(* SIGTERM/SIGINT arrives: with no channel registered the process dies;
   otherwise every goroutine blocked in its receive gets the signal, and a
   registered channel nobody is receiving from drops it (the channel is
   unbuffered and the runtime does not block sending) *)
Signal ==
    /\ alive /\ ncalls + nsig < MaxCalls
    /\ nsig' = nsig + 1
    /\ trace' = Append(trace, Event("", "signal", "", "", <<>>, 0))
    /\ IF \A s \in Sessions : lst[s].registered = 0 /\ lst[s].parked = 0
       THEN alive' = FALSE /\ lst' = lst
       ELSE /\ alive' = alive
            /\ lst' = [s \in Sessions |->
                         [lst[s] EXCEPT !.caught = @ + lst[s].parked, !.parked = 0]]
    /\ UNCHANGED <<prof, rt, dirs, files, handles, tmpSeq, ncalls, inflight>>

(* a listener that ends the process once its Stop has returned *)
ListenerRun_ThenExits(s) ==
    /\ alive /\ lst[s].caught > 0
    /\ Becomes(interruptHook([World EXCEPT !.lst[s].caught = @ - 1], s))
    /\ alive' = FALSE
    /\ UNCHANGED <<ncalls, nsig, inflight>>

(* an interruptHook goroutine that got the signal warns, stops the session
   and retires *)
ListenerRun(s) ==
    /\ alive /\ lst[s].caught > 0
    /\ Becomes(interruptHook([World EXCEPT !.lst[s].caught = @ - 1], s))
    /\ UNCHANGED <<alive, ncalls, nsig, inflight>>

(* the exit status of the process once it has ended: an unrecovered panic
   ends a Go program with status 2; os.Exit(code), which only the earlier
   lineage calls, ends it with that code; a process killed by a signal has
   no exit code (-1) *)
ExitStatus ==
    IF trace # <<>> /\ trace[Len(trace)].ev = "ret" /\ trace[Len(trace)].msg = "panic"
    THEN 2
    ELSE IF trace # <<>> /\ trace[Len(trace)].ev = "exit"
    THEN trace[Len(trace)].n
    ELSE -1

(* the process has ended because a call of the package failed *)
EndedByFailure == ~alive /\ trace # <<>> /\ trace[Len(trace)].ev = "ret"

Next ==
    \/ \E s \in Driven : Construct(s)
    \/ AppSetKnobs
    \/ AppStartsCollector
    \/ \E s \in Driven : Start(s)
    \/ \E s \in Driven : Stop(s)
    \/ \E s \in Driven : ListenerRegister(s)
    \/ \E s \in Driven : ListenerPark(s)
    \/ Signal
    \/ \E s \in Driven : ListenerRun(s)

Spec == Init /\ [][Next]_vars

(* A process with two sessions.  The caller builds both before it calls
   either, A first, from the Configs that decide where the file goes, and then calls Start and Stop on them in any order. *)
MultiConfigs ==
    {ZeroConfig,
     [ZeroConfig EXCEPT !.Path = <<"/", "private">>],
     [ZeroConfig EXCEPT !.UseTempPath = TRUE]}

ConstructMulti(s) ==
    /\ alive /\ ~Built(s) /\ ncalls = 0
    /\ s = "A" \/ Built("A")
    /\ \E mode \in Modes, cfg \in MultiConfigs :
         /\ prof' = [prof EXCEPT ![s] = NewProfile(mode, cfg)]
         /\ trace' = Append(trace, Event(s, "construct", "", mode, <<>>, 0))
    /\ UNCHANGED <<rt, dirs, files, handles, lst, tmpSeq, alive, ncalls, nsig, inflight>>

NextMulti ==
    \/ \E s \in Sessions : ConstructMulti(s)
    \/ \E s \in Sessions : Start(s)
    \/ \E s \in Sessions : Stop(s)

SpecMulti == Init /\ [][NextMulti]_vars

(* The constructors alone: the caller builds a session of any kind from any
   Config, a negative memory rate included; the history keeps the
   arguments (kind, Path, MemProfileType, MemProfileRate) and, after them,
   the whole Config ("config", in n). *)
CtorConfigs ==
    [Path : Paths, UseTempPath : BOOLEAN, PanicIfFail : BOOLEAN,
     EnableInterruptHook : BOOLEAN, Quiet : BOOLEAN,
     MemProfileRate : {-1, 0, 1, 1024}, MemProfileType : {"", MemProfileHeap, MemProfileAllocs},
     CloserHook : BOOLEAN, Logger : BOOLEAN]

ConstructAny(s) ==
    /\ alive /\ ~Built(s)
    /\ \E mode \in Modes, cfg \in CtorConfigs :
         /\ prof' = [prof EXCEPT ![s] = NewProfile(mode, cfg)]
         /\ trace' = trace \o <<Event(s, "construct", cfg.MemProfileType, mode,
                                       cfg.Path, cfg.MemProfileRate),
                                 Event(s, "config", "", mode, <<>>, cfg)>>
    /\ UNCHANGED <<rt, dirs, files, handles, lst, tmpSeq, alive, ncalls, nsig, inflight>>

NextCtor == \E s \in Driven : ConstructAny(s)

SpecCtor == Init /\ [][NextCtor]_vars

(* The logging alone: a session with or without Quiet and an injected
   logger raises messages of every level through log and logf; the history
   keeps each message raised ("raise", its level, plain or formatted) before
   what log or logf made of it. *)
LogConfigs == {cfg \in AllConfigs : OptionsSet(cfg) \subseteq {"Quiet", "Logger"}}

ConstructLog(s) ==
    /\ alive /\ ~Built(s)
    /\ \E mode \in {cpuMode, memMode}, cfg \in LogConfigs :
         /\ prof' = [prof EXCEPT ![s] = NewProfile(mode, cfg)]
         /\ trace' = Append(trace, Event(s, "construct", "", mode, <<>>, 0))
    /\ UNCHANGED <<rt, dirs, files, handles, lst, tmpSeq, alive, ncalls, nsig, inflight>>

(* p.log(level, ...) *)
RaisePlain(s) ==
    /\ alive /\ Built(s) /\ ncalls + nsig < MaxCalls
    /\ \E level \in Levels :
         Becomes(log(Emit(World, Event(s, "raise", level, "plain", <<>>, 0)),
                     s, level, "message"))
    /\ ncalls' = ncalls + 1
    /\ UNCHANGED <<alive, nsig, inflight>>

(* p.logf(level, template, ...) *)
RaiseFormatted(s) ==
    /\ alive /\ Built(s) /\ ncalls + nsig < MaxCalls
    /\ \E level \in Levels :
         Becomes(logf(Emit(World, Event(s, "raise", level, "formatted", <<>>, 0)),
                      s, level, "message", <<>>, 0))
    /\ ncalls' = ncalls + 1
    /\ UNCHANGED <<alive, nsig, inflight>>

NextLog ==
    \/ \E s \in Driven : ConstructLog(s)
    \/ \E s \in Driven : RaisePlain(s)
    \/ \E s \in Driven : RaiseFormatted(s)

SpecLog == Init /\ [][NextLog]_vars

(* Start and Stop called from several goroutines of the caller at once.  A
   call is its compare-and-swap, one atomic step, and, when it has won, the
   statements that follow it, each a step of its own that other goroutines
   run between: preparePath, createFile, the start of the kind (collector
   or knob, stop closure, 'enabled'), startInterruptHook and the return; for
   Stop the closure read from p.internalCloser, the closer hook and the
   return.  p.internalCloser is read and written without synchronisation:
   the read gives nil or the closure, as the steps fall. *)
RaceConfigs ==
    {ZeroConfig,
     [ZeroConfig EXCEPT !.CloserHook = TRUE],
     [ZeroConfig EXCEPT !.Path = <<"/", "private">>, !.PanicIfFail = TRUE]}

ConstructRace(s) ==
    /\ alive /\ ~Built(s)
    /\ \E mode \in Modes, cfg \in RaceConfigs :
         /\ prof' = [prof EXCEPT ![s] = NewProfile(mode, cfg)]
         /\ trace' = Append(trace, Event(s, "construct", "", mode, <<>>, 0))
    /\ UNCHANGED <<rt, dirs, files, handles, lst, tmpSeq, alive, ncalls, nsig, inflight>>

(* a goroutine inside Start goes from one statement to the next, or
   unwinds when the statement has panicked *)
Goes(s, from, to, w) ==
    /\ Becomes(IF w.panic THEN Returned(w, s, "caller") ELSE w)
    /\ inflight' = [inflight EXCEPT ![s][from] = @ - 1,
                                    ![s][to] = @ + (IF w.panic THEN 0 ELSE 1)]
    /\ alive' \in (IF w.panic THEN BOOLEAN ELSE {TRUE})
    /\ UNCHANGED <<ncalls, nsig>>

(* a goroutine calls p.Start(): the compare-and-swap *)
CallStart(s) ==
    /\ alive /\ Built(s) /\ ncalls + nsig < MaxCalls
    /\ Becomes(beginStart(World, s))
    /\ inflight' = [inflight EXCEPT ![s].preparePath = @ + (IF prof'[s] # prof[s] THEN 1 ELSE 0)]
    /\ ncalls' = ncalls + 1
    /\ UNCHANGED <<alive, nsig>>

StepPreparePath(s) ==
    /\ alive /\ inflight[s].preparePath > 0
    /\ \E tmpOk \in (IF prof[s].useTempPath THEN BOOLEAN ELSE {TRUE}) :
         Goes(s, "preparePath", "createFile", preparePath(World, s, tmpOk))

StepCreateFile(s) ==
    /\ alive /\ inflight[s].createFile > 0
    /\ Goes(s, "createFile", "startMode", createFile(World, s))

StepStartMode(s) ==
    /\ alive /\ inflight[s].startMode > 0
    /\ Goes(s, "startMode", "startInterruptHook", collectorStart(World, s))

(* p.startInterruptHook(); return p *)
StepStartInterruptHook(s) ==
    /\ alive /\ inflight[s].startInterruptHook > 0
    /\ Becomes(Returned(startInterruptHook(World, s), s, "caller"))
    /\ inflight' = [inflight EXCEPT ![s].startInterruptHook = @ - 1]
    /\ UNCHANGED <<alive, ncalls, nsig>>

(* a goroutine calls p.Stop(): the compare-and-swap *)
CallStop(s) ==
    /\ alive /\ Built(s) /\ ncalls + nsig < MaxCalls
    /\ Becomes(beginStop(World, s))
    /\ inflight' = [inflight EXCEPT ![s].stopWork = @ + (IF prof'[s] # prof[s] THEN 1 ELSE 0)]
    /\ ncalls' = ncalls + 1
    /\ UNCHANGED <<alive, nsig>>

(* the Stop that won runs the closure it finds, the closer hook, and returns *)
StepStopWork(s) ==
    /\ alive /\ inflight[s].stopWork > 0
    /\ Becomes(Returned(stopWork(World, s), s, "caller"))
    /\ inflight' = [inflight EXCEPT ![s].stopWork = @ - 1]
    /\ UNCHANGED <<alive, ncalls, nsig>>

NextRace ==
    \/ \E s \in Driven : ConstructRace(s)
    \/ \E s \in Driven : CallStart(s)
    \/ \E s \in Driven : StepPreparePath(s)
    \/ \E s \in Driven : StepCreateFile(s)
    \/ \E s \in Driven : StepStartMode(s)
    \/ \E s \in Driven : StepStartInterruptHook(s)
    \/ \E s \in Driven : CallStop(s)
    \/ \E s \in Driven : StepStopWork(s)

SpecRace == Init /\ [][NextRace]_vars

(* Two memory sessions in one process, each started once and stopped once
   after it, in any order between the two, with the default rate or a rate
   of the caller, while the application sets the rate of its own. *)
MemConfigs == {ZeroConfig, [ZeroConfig EXCEPT !.MemProfileRate = 1024]}

ConstructMem(s) ==
    /\ alive /\ ~Built(s)
    /\ s = "A" \/ Built("A")
    /\ \E cfg \in MemConfigs :
         /\ prof' = [prof EXCEPT ![s] = MemProfile(cfg)]
         /\ trace' = Append(trace, Event(s, "construct", "", memMode, <<>>, 0))
    /\ UNCHANGED <<rt, dirs, files, handles, lst, tmpSeq, alive, ncalls, nsig, inflight>>

(* p.Start(), once for the session: it has not been started before *)
StartOnce(s) ==
    /\ alive /\ \A o \in Sessions : Built(o)
    /\ prof[s].started = 0 /\ prof[s].internalCloser = NilFunc
    /\ Becomes(ProfileStart(World, s, "caller", TRUE))
    /\ UNCHANGED <<alive, ncalls, nsig, inflight>>

(* p.Stop(), once for the session, after its Start *)
StopOnce(s) ==
    /\ alive /\ prof[s].started = 1
    /\ Becomes(ProfileStop(World, s, "caller"))
    /\ UNCHANGED <<alive, ncalls, nsig, inflight>>

NextMem ==
    \/ \E s \in Sessions : ConstructMem(s)
    \/ AppSetKnobs
    \/ \E s \in Sessions : StartOnce(s)
    \/ \E s \in Sessions : StopOnce(s)

SpecMem == Init /\ [][NextMem]_vars

(* The snapshot kinds whose lookup can miss: a thread session (its lookup
   name is not a profile of the runtime) and a memory session whose
   MemProfileType the caller set to a string that names no profile; with a
   goroutine session beside them, whose lookup succeeds. *)
LookupConfigs ==
    {[ZeroConfig EXCEPT !.Path = path, !.PanicIfFail = pif, !.Quiet = q,
                        !.CloserHook = hook, !.MemProfileType = type] :
        path \in {<<>>, <<"/", "private">>}, pif \in BOOLEAN, q \in BOOLEAN,
        hook \in BOOLEAN, type \in {"", "inuse"}}

ConstructLookup(s) ==
    /\ alive /\ ~Built(s)
    /\ \E mode \in {memMode, threadMode, goroutineMode}, cfg \in LookupConfigs :
         /\ prof' = [prof EXCEPT ![s] = NewProfile(mode, cfg)]
         /\ trace' = Append(trace, Event(s, "construct", "", mode, <<>>, 0))
    /\ UNCHANGED <<rt, dirs, files, handles, lst, tmpSeq, alive, ncalls, nsig, inflight>>

NextLookup ==
    \/ \E s \in Driven : ConstructLookup(s)
    \/ AppSetKnobs
    \/ \E s \in Driven : Start(s)
    \/ \E s \in Driven : Stop(s)

SpecLookup == Init /\ [][NextLookup]_vars

----------------------------------------------------------------------------
(* The earlier lineage of the package (profile.go:593-1090): ProfileConfig with
   DisableShutdownHook, failures that end the process through log.Fatalf, a
   stop closure built by stopAndFlush, and a shutdown hook that calls
   os.Exit(0) after Stop.  A session of this lineage is a record of the
   fields of its Profile struct; file and previous are the variables its
   stop closure captured. *)

(* the ProfileConfig values the caller builds sessions from: at most
   MaxOptions fields differ from the zero value &profile.ProfileConfig{} *)
ProfileConfigs ==
    LET ZeroProfileConfig ==
            [Path |-> <<>>, DisableShutdownHook |-> FALSE, Quiet |-> FALSE,
             MemProfileRate |-> 0, MemProfileType |-> "", CloserHook |-> FALSE] IN
    {cfg \in [Path : {<<>>, <<"out">>, <<"/", "private">>}, DisableShutdownHook : BOOLEAN,
              Quiet : BOOLEAN, MemProfileRate : {0, 1024},
              MemProfileType : {"", MemProfileAllocs}, CloserHook : BOOLEAN] :
        Cardinality({f \in DOMAIN cfg : cfg[f] # ZeroProfileConfig[f]}) <= MaxOptions}

(* cpuPprofDefaultFilename ... goroutingPprofDefaultFilename *)
DefaultFilename(mode) ==
    CASE mode = cpuMode -> "cpu.pprof"
      [] mode = memMode -> "mem.pprof"
      [] mode = mutexMode -> "mutex.pprof"
      [] mode = blockMode -> "block.pprof"
      [] mode = traceMode -> "trace.pprof"
      [] mode = threadMode -> "threadcreate.pprof"
      [] mode = goroutineMode -> "goroutine.pprof"

(* CPUProfile(cfg) ... GoroutineProfile(cfg) of the earlier lineage: the
   fields are copied from the ProfileConfig; the memory kind fills in its
   rate and type *)
EarlierProfile(mode, cfg) ==
    [mode |-> mode, path |-> cfg.Path, filename |-> <<>>,
     disableShutdownHook |-> cfg.DisableShutdownHook, quiet |-> cfg.Quiet,
     memProfileRate |-> IF mode # memMode THEN 0
                        ELSE IF cfg.MemProfileRate > 0 THEN cfg.MemProfileRate
                        ELSE DefaultMemProfileRate,
     memProfileType |-> IF mode # memMode THEN ""
                        ELSE IF cfg.MemProfileType # "" THEN cfg.MemProfileType
                        ELSE DefaultMemProfileType,
     closer |-> NilFunc, closerHook |-> cfg.CloserHook, started |-> 0,
     file |-> NilFile, previous |-> -1]

(* os.Exit has been called: the process is gone *)
Exited(w) == w.trace # <<>> /\ w.trace[Len(w.trace)].ev = "exit"

(* the goroutine runs no further statement: it unwinds or the process is gone *)
Gone(w) == w.panic \/ Exited(w)

(* log.Fatalf: the line on standard error, then os.Exit(1) *)
Fatalf(w, s, msg) ==
    Emit(Emit(w, Event(s, "log.Fatalf", fatalLevel, msg, <<>>, 0)),
         Event(s, "exit", "caller", "os.Exit", <<>>, 1))

(* logger: if !p.quiet { log.Printf(format, args...) } *)
logger(w, s, msg) ==
    IF Gone(w) \/ w.prof[s].quiet THEN w
    ELSE Emit(w, Event(s, "log.Printf", "", msg, w.prof[s].filename, 0))

(* if err != nil { p.logger(...) } *)
loggerIfErr(w, s, msg) == IF w.err THEN logger(w, s, msg) ELSE w

(* the call of a nil func value: a runtime panic *)
NilCall(w, s) ==
    [Emit(w, Event(s, "panic", "", "nil func", <<>>, 0)) EXCEPT !.panic = TRUE]

(* preparePath of the earlier lineage: a non-empty path is created, its
   error overwritten; then p.path becomes a fresh temporary directory in
   every case, and the failure of that ends the process *)
EarlierPreparePath(w, s, tmpOk) ==
    LET made == IF w.prof[s].path # <<>>
                THEN [w EXCEPT !.dirs = MkdirAll(w.dirs, w.prof[s].path).dirs]
                ELSE w
        d == TmpRoot \o <<"profile" \o ToString(w.tmpSeq + 1)>> IN
    IF tmpOk
    THEN [made EXCEPT !.prof[s].path = d, !.dirs = @ \cup {d}, !.tmpSeq = @ + 1,
                      !.err = FALSE]
    ELSE Fatalf(Fail([made EXCEPT !.prof[s].path = <<>>], s, "TempDir"), s,
                "profiling start aborted, could not create initial output directory")

(* p.filename = filepath.Join(p.path, <default filename>);
   file, err := os.Create(p.filename); if err != nil { log.Fatalf(...) } *)
EarlierCreate(w, s) ==
    LET fn == Join(w.prof[s].path, DefaultFilename(w.prof[s].mode))
        h == Len(w.handles) + 1 IN
    IF Gone(w) THEN w
    ELSE IF CanCreate(w.dirs, fn)
    THEN Emit([w EXCEPT !.prof[s].filename = fn, !.prof[s].file = h,
                        !.files = @ \cup {fn},
                        !.handles = Append(@, [path |-> fn, open |-> TRUE, data |-> <<>>]),
                        !.err = FALSE],
              Event(s, "create", "", "", fn, h))
    ELSE Fatalf(Fail([w EXCEPT !.prof[s].filename = fn], s, "Create"), s,
                "could not create profile")

(* p.closer = p.stopAndFlush(file, previous) *)
SetCloser(w, s, previous) ==
    IF Gone(w) THEN w
    ELSE [w EXCEPT !.prof[s].closer = "stopAndFlush", !.prof[s].previous = previous]

(* startCpuMode ... startGoroutineMode of the earlier lineage, after the
   file has been created: a failed StartCPUProfile is logged, a failed
   trace.Start ends the process *)
EarlierCollectorStart(w, s) ==
    IF Gone(w) THEN w
    ELSE CASE w.prof[s].mode = cpuMode ->
                SetCloser(loggerIfErr(StartCPUProfile(logger(w, s, "enabled"), s), s,
                                      "cpu profiling start failed"), s, -1)
           [] w.prof[s].mode = memMode ->
                SetCloser(logger(SetMemProfileRate(w, s, w.prof[s].memProfileRate), s,
                                 "enabled"), s, w.rt.MemProfileRate)
           [] w.prof[s].mode = mutexMode ->
                SetCloser(logger(SetMutexProfileFraction(w, s, 1), s, "enabled"), s, -1)
           [] w.prof[s].mode = blockMode ->
                SetCloser(logger(SetBlockProfileRate(w, s, 1), s, "enabled"), s, -1)
           [] w.prof[s].mode = traceMode ->
                IF w.rt.trace.on
                THEN Fatalf(TraceStart(w, s), s, "could not start trace")
                ELSE SetCloser(logger(TraceStart(w, s), s, "enabled"), s, -1)
           [] OTHER -> SetCloser(logger(w, s, "enabled"), s, -1)

(* go func() { ... }() unless disableShutdownHook *)
startShutdownHook(w, s) ==
    IF Gone(w) \/ w.prof[s].disableShutdownHook THEN w ELSE spawn(w, s)

(* the lookup closures' common part: pprof.Lookup of string(p.memProfileType),
   mutexPprof, blockPprof, threadPprof or goroutinePprof, WriteTo(file, 0) or the
   'lookup returned null' message, file.Close(), each error logged *)
EarlierFlush(w, s) ==
    LET name == CASE w.prof[s].mode = memMode -> w.prof[s].memProfileType
                  [] w.prof[s].mode = mutexMode -> "mutex"
                  [] w.prof[s].mode = blockMode -> "block"
                  [] w.prof[s].mode = threadMode -> "threadcreate"
                  [] OTHER -> "goroutine"
        written == IF Lookup(name)
                   THEN loggerIfErr(WriteFile(w, s, w.prof[s].file, name), s,
                                    "error flushing data to file")
                   ELSE logger(w, s, "pprof lookup returned null") IN
    loggerIfErr(CloseFile(written, s, w.prof[s].file), s, "error flushing data to file")

(* p.closer(): the closure stopAndFlush(file, previousMemRate) returned for
   the kind *)
EarlierCloser(w, s) ==
    IF w.prof[s].closer = NilFunc THEN NilCall(w, s)
    ELSE CASE w.prof[s].mode = cpuMode ->
           logger(loggerIfErr(CloseFile(StopCPUProfile(w, s), s, w.prof[s].file), s,
                              "error flushing data to file"), s, "disabled")
      [] w.prof[s].mode = memMode ->
           logger(SetMemProfileRate(EarlierFlush(w, s), s, w.prof[s].previous), s, "disabled")
      [] w.prof[s].mode = mutexMode ->
           logger(SetMutexProfileFraction(EarlierFlush(w, s), s, 0), s, "disabled")
      [] w.prof[s].mode = blockMode ->
           logger(SetBlockProfileRate(EarlierFlush(w, s), s, 0), s, "disabled")
      [] w.prof[s].mode = traceMode -> logger(TraceStop(w, s), s, "disabled")
      [] OTHER -> logger(EarlierFlush(w, s), s, "disabled")

(* p.closerHook(): no test for nil comes before the call *)
CallCloserHook(w, s) ==
    IF Gone(w) THEN w
    ELSE IF w.prof[s].closerHook THEN Emit(w, Event(s, "hook", "", "", <<>>, 0))
    ELSE NilCall(w, s)

(* Start of the earlier lineage: the compare-and-swap, preparePath, the
   start of the kind, startShutdownHook; it does not return when log.Fatalf
   has ended the process *)
EarlierStart(w, s, by, tmpOk) ==
    IF w.prof[s].started # 0
    THEN Returned(Called(w, s, "Start", by, FALSE), s, by)
    ELSE LET won == Called([w EXCEPT !.prof[s].started = 1], s, "Start", by, TRUE)
             done == startShutdownHook(
                        EarlierCollectorStart(
                           EarlierCreate(EarlierPreparePath(won, s, tmpOk), s), s), s) IN
         IF Exited(done) THEN done ELSE Returned(done, s, by)

(* Stop of the earlier lineage: the compare-and-swap, p.closer(), p.closerHook() *)
EarlierStop(w, s, by) ==
    IF w.prof[s].started # 1
    THEN Returned(Called(w, s, "Stop", by, FALSE), s, by)
    ELSE Returned(CallCloserHook(
                     EarlierCloser(Called([w EXCEPT !.prof[s].started = 0],
                                       s, "Stop", by, TRUE), s), s), s, by)

(* the goroutine of startShutdownHook after its receive:
   log.Println(...); p.Stop(); os.Exit(0) *)
shutdownHook(w, s) ==
    LET stopped == EarlierStop(Emit(w, Event(s, "log.Println", "",
                                             "caught interrupt, stop profiling", <<>>, 0)),
                               s, "listener") IN
    IF stopped.panic THEN stopped
    ELSE Emit(stopped, Event(s, "exit", "listener", "os.Exit", <<>>, 0))

(* the caller builds session s of the earlier lineage *)
ConstructEarlier(s) ==
    /\ alive /\ ~Built(s)
    /\ \E mode \in Modes, cfg \in ProfileConfigs :
         /\ prof' = [prof EXCEPT ![s] = EarlierProfile(mode, cfg)]
         /\ trace' = Append(trace, Event(s, "construct", "", mode, <<>>, 0))
    /\ UNCHANGED <<rt, dirs, files, handles, lst, tmpSeq, alive, ncalls, nsig, inflight>>

(* the caller calls p.Start(); log.Fatalf ends the process *)
StartEarlier(s) ==
    /\ alive /\ Built(s) /\ ncalls + nsig < MaxCalls
    /\ \E tmpOk \in (IF prof[s].started = 0 THEN BOOLEAN ELSE {TRUE}) :
         /\ Becomes(EarlierStart(World, s, "caller", tmpOk))
         /\ alive' = ~Exited(EarlierStart(World, s, "caller", tmpOk))
    /\ ncalls' = ncalls + 1
    /\ UNCHANGED <<nsig, inflight>>

(* the caller calls p.Stop(); a panic either ends the process or is
   recovered by the caller *)
StopEarlier(s) ==
    /\ alive /\ Built(s) /\ ncalls + nsig < MaxCalls
    /\ Becomes(EarlierStop(World, s, "caller"))
    /\ alive' \in (IF EarlierStop(World, s, "caller").panic THEN BOOLEAN ELSE {TRUE})
    /\ ncalls' = ncalls + 1
    /\ UNCHANGED <<nsig, inflight>>

(* a shutdown-hook goroutine that got the signal: the process ends with it,
   through os.Exit(0) or through the panic nobody recovers *)
ListenerRunEarlier(s) ==
    /\ alive /\ lst[s].caught > 0
    /\ Becomes(shutdownHook([World EXCEPT !.lst[s].caught = @ - 1], s))
    /\ alive' = FALSE
    /\ UNCHANGED <<ncalls, nsig, inflight>>

NextEarlier ==
    \/ \E s \in Driven : ConstructEarlier(s)
    \/ \E s \in Driven : StartEarlier(s)
    \/ \E s \in Driven : StopEarlier(s)
    \/ \E s \in Driven : ListenerRegister(s)
    \/ \E s \in Driven : ListenerPark(s)
    \/ Signal
    \/ \E s \in Driven : ListenerRunEarlier(s)

SpecEarlier == Init /\ [][NextEarlier]_vars

----------------------------------------------------------------------------
(* Reading the history *)

Idx == 1..Len(trace)

Max(S) == CHOOSE x \in S : \A y \in S : y <= x
Min(S) == CHOOSE x \in S : \A y \in S : x <= y

(* events i of session s that begin a call of op, and those that won *)
Calls(s, op) == {i \in Idx : trace[i].s = s /\ trace[i].ev = op}
Wins(s, op) == {i \in Calls(s, op) : trace[i].msg = "win"}

(* the event that ends the call begun at i *)
RetOf(i) == Min({j \in Idx : j > i /\ trace[j].ev = "ret" /\ trace[j].s = trace[i].s})

(* the events of the call begun at i, its begin and end excluded *)
Within(i) == {k \in Idx : i < k /\ k < RetOf(i)}

(* the events session s has added to the history *)
Count(s, ev) == Cardinality({i \in Idx : trace[i].s = s /\ trace[i].ev = ev})

(* the events that are a line on standard output or a call of a method of
   the injected logger *)
LogEvents ==
    {"stdout"} \cup {LoggerMethod(l) : l \in Levels} \cup {LoggerMethod(l) \o "f" : l \in Levels}

(* the step is a call of op on s by the caller *)
CallerCalls(s, op) ==
    /\ Len(trace') > Len(trace)
    /\ trace'[Len(trace) + 1].s = s
    /\ trace'[Len(trace) + 1].ev = op
    /\ trace'[Len(trace) + 1].lvl = "caller"

(* the step added to the history only a call that lost its compare-and-swap *)
OnlyNoop(s, op) ==
    trace' = trace \o <<Event(s, op, "caller", "noop", <<>>, 0),
                        Event(s, "ret", "caller", "ok", <<>>, 0)>>

----------------------------------------------------------------------------
(* C1: Start on a session that is Running (started = 1) is a no-op: no
   directory or file is made, no collector or knob of the runtime changes,
   nothing is logged, no listener is launched, no field of the session
   changes, and the call returns normally. *)
C1_StartOnRunningIsNoOp ==
    [][\A s \in Sessions :
         (prof[s].started = 1 /\ CallerCalls(s, "Start"))
            => (UNCHANGED progVars /\ OnlyNoop(s, "Start"))]_vars

(* a Start that lost its compare-and-swap has been made *)
C1_Witness ==
    \E s \in Sessions : \E i \in Calls(s, "Start") : trace[i].msg = "noop"

(* C2: Stop on a session that was never started changes nothing: nothing is
   logged, no file is created or closed, no knob is touched, the closer hook
   does not run, the call returns normally and the flag stays 0. *)
C2_StopOnIdleIsNoOp ==
    [][\A s \in Sessions :
         (Wins(s, "Start") = {} /\ CallerCalls(s, "Stop"))
            => (UNCHANGED progVars /\ OnlyNoop(s, "Stop") /\ prof'[s].started = 0)]_vars

(* Stop has been called on a session, with a closer hook, that was never started *)
C2_Witness ==
    \E s \in Sessions :
        /\ Wins(s, "Start") = {}
        /\ Calls(s, "Stop") # {}
        /\ prof[s].closerHook

(* C3: when exactly one Start of a session has won and returned, the stop
   work is done exactly once however many Stop calls follow: the first Stop
   wins, runs the stop closure and then the closer hook (when there is one);
   every later Stop loses and does nothing. *)
C3_StopWorkOnce ==
    \A s \in Sessions :
        (Cardinality(Wins(s, "Start")) = 1
            /\ trace[RetOf(Min(Wins(s, "Start")))].msg = "ok")
        => LET start == Min(Wins(s, "Start"))
               stops == {j \in Calls(s, "Stop") : j > start} IN
           /\ Count(s, "closer") = (IF stops = {} THEN 0 ELSE 1)
           /\ Count(s, "hook") = (IF stops # {} /\ prof[s].closerHook THEN 1 ELSE 0)
           /\ \A j \in stops :
                IF j = Min(stops)
                THEN /\ trace[j].msg = "win"
                     /\ trace[j + 1].ev = "closer"
                     /\ prof[s].closerHook => trace[RetOf(j) - 1].ev = "hook"
                ELSE trace[j].msg = "noop" /\ RetOf(j) = j + 1

(* one Start, then at least two Stops, on a session with a closer hook *)
C3_Witness ==
    \E s \in Sessions :
        /\ Cardinality(Wins(s, "Start")) = 1
        /\ prof[s].closerHook
        /\ Cardinality({j \in Calls(s, "Stop") : j > Min(Wins(s, "Start"))}) >= 2

(* C4: Stopped is terminal: once a Stop of a session has won, no later
   Start of that session wins. *)
C4_StoppedIsTerminal ==
    \A s \in Sessions : \A i \in Wins(s, "Stop") : \A j \in Wins(s, "Start") : j < i

(* the file handle in p.file is open in the operating system *)
FileOpen(s) == prof[s].file # NilFile /\ handles[prof[s].file].open

(* the last thing that happened is that a Stop of s that won returned, and
   the Start before it had returned normally *)
JustStopped(s) ==
    /\ Wins(s, "Stop") # {}
    /\ RetOf(Max(Wins(s, "Stop"))) = Len(trace)
    /\ \E i \in Wins(s, "Start") :
         /\ i = Max({k \in Wins(s, "Start") : k < Max(Wins(s, "Stop"))})
         /\ trace[RetOf(i)].msg = "ok"

(* the Start that the last winning Stop of s answers *)
StartOfLastStop(s) == Max({k \in Wins(s, "Start") : k < Max(Wins(s, "Stop"))})

(* C5: for every kind the output file is opened once, in Start, and closed
   once, in the Stop that wins: when that Stop has returned, the file that
   Start opened is closed, by exactly one close in that Stop. *)
C5_FileClosedByStop ==
    \A s \in Sessions :
        (JustStopped(s) /\ prof[s].file # NilFile)
        => /\ ~FileOpen(s)
           /\ Cardinality({k \in Within(StartOfLastStop(s)) : trace[k].ev = "create"}) = 1
           /\ Cardinality({k \in Within(Max(Wins(s, "Stop"))) :
                              trace[k].ev = "close" /\ trace[k].n = prof[s].file}) = 1

(* the value of a knob of the runtime before event i of the history: what
   the last assignment before i gave it, the application's or a session's;
   named by the runtime call that sets it *)
KnobBefore(i, call, app, fresh) ==
    LET S == {k \in 1..(i - 1) :
                 \/ trace[k].ev = "app"
                 \/ trace[k].ev = "rt" /\ trace[k].msg = call} IN
    IF S = {} THEN fresh
    ELSE IF trace[Max(S)].ev = "app" THEN app ELSE trace[Max(S)].n

(* the last thing that happened is that a Start of s that won returned normally *)
JustStarted(s) ==
    /\ Wins(s, "Start") # {}
    /\ RetOf(Max(Wins(s, "Start"))) = Len(trace)
    /\ trace[Len(trace)].msg = "ok"

(* C6: a memory session with rate r, whatever the global rate g before its
   Start: when Start has returned the global rate is r and the 'enabled'
   message carries r; when the following Stop has returned the global rate
   is g again. *)
C6_MemRateSetAndRestored ==
    \A s \in Sessions :
        prof[s].mode = memMode =>
            /\ JustStarted(s) =>
                 /\ prof[s].memProfileRate > 0
                 /\ rt.MemProfileRate = prof[s].memProfileRate
                 /\ ~prof[s].quiet =>
                      \E k \in Within(Max(Wins(s, "Start"))) :
                          /\ trace[k].ev \in LogEvents
                          /\ trace[k].msg = "enabled"
                          /\ trace[k].n = prof[s].memProfileRate
            /\ JustStopped(s) =>
                 rt.MemProfileRate =
                     KnobBefore(StartOfLastStop(s), "MemProfileRate",
                                AppKnobs.mem, RuntimeKnobs.mem)

(* a memory session with a configured rate, started when the application
   had set its own global rate, has been stopped *)
C6_Witness ==
    \E s \in Sessions :
        /\ prof[s].mode = memMode
        /\ prof[s].memProfileRate # DefaultMemProfileRate
        /\ JustStopped(s)
        /\ KnobBefore(StartOfLastStop(s), "MemProfileRate", AppKnobs.mem, RuntimeKnobs.mem)
              = AppKnobs.mem

(* C7: a mutex session and a block session: the value the mutex-profile
   fraction / block-profile rate had just before Start, a non-zero value of
   the application included, is in force when the following Stop has
   returned. *)
C7_KnobRestored ==
    \A s \in Sessions :
        JustStopped(s) =>
            /\ prof[s].mode = mutexMode =>
                 rt.mutexFraction =
                     KnobBefore(StartOfLastStop(s), "SetMutexProfileFraction",
                                AppKnobs.mutex, RuntimeKnobs.mutex)
            /\ prof[s].mode = blockMode =>
                 rt.blockRate =
                     KnobBefore(StartOfLastStop(s), "SetBlockProfileRate",
                                AppKnobs.block, RuntimeKnobs.block)

(* the knob of the kind of s has the value it had before the Start that the
   last winning Stop answers *)
KnobAsBeforeStart(s) ==
    /\ prof[s].mode = memMode =>
         rt.MemProfileRate =
             KnobBefore(StartOfLastStop(s), "MemProfileRate", AppKnobs.mem, RuntimeKnobs.mem)
    /\ prof[s].mode = mutexMode =>
         rt.mutexFraction =
             KnobBefore(StartOfLastStop(s), "SetMutexProfileFraction",
                        AppKnobs.mutex, RuntimeKnobs.mutex)
    /\ prof[s].mode = blockMode =>
         rt.blockRate =
             KnobBefore(StartOfLastStop(s), "SetBlockProfileRate",
                        AppKnobs.block, RuntimeKnobs.block)

(* C8: on every Stop that wins, the closer hook runs exactly once and last:
   the collector is stopped, the file closed, the knob restored and
   'disabled' logged before it; it never runs on a Stop that loses, and
   without a hook Stop returns normally. *)
C8_CloserHookLast ==
    \A s \in Sessions :
        /\ \A i \in Calls(s, "Stop") :
             /\ trace[RetOf(i)].msg = "ok"
             /\ Cardinality({k \in Within(i) : trace[k].ev = "hook"})
                   = (IF trace[i].msg = "win" /\ prof[s].closerHook THEN 1 ELSE 0)
             /\ (trace[i].msg = "win" /\ prof[s].closerHook) =>
                   trace[RetOf(i) - 1].ev = "hook"
        /\ (JustStopped(s) /\ prof[s].closerHook) =>
             /\ prof[s].mode = cpuMode => ~rt.cpu.on
             /\ prof[s].mode = traceMode => ~rt.trace.on
             /\ prof[s].file # NilFile => ~FileOpen(s)
             /\ KnobAsBeforeStart(s)
             /\ ~prof[s].quiet =>
                  \E k \in Within(Max(Wins(s, "Stop"))) :
                      trace[k].ev \in LogEvents /\ trace[k].msg = "disabled"

(* C9: with Quiet set nothing is ever logged: no line on standard output and
   no call of a method of the injected logger, whatever the kind, whether
   the calls succeed or fail, the error-level and the interrupt-hook
   messages included. *)
C9_QuietIsSilent ==
    \A i \in Idx : trace[i].ev \in LogEvents => ~prof[trace[i].s].quiet

(* a quiet session with the interrupt hook whose listener caught a signal
   and stopped the session *)
C9_Witness ==
    \E s \in Sessions :
        /\ prof[s].quiet
        /\ \E i \in Wins(s, "Stop") : trace[i].lvl = "listener"

(* the session was built from the zero Config *)
DefaultConfigured(s) ==
    /\ Built(s)
    /\ prof[s].path \in {<<>>, DefaultPath}
    /\ [prof[s] EXCEPT !.path = <<>>, !.filePath = <<>>, !.file = NilFile,
                       !.internalCloser = NilFunc, !.previousMemProfileRate = 0,
                       !.started = 0]
          = NewProfile(prof[s].mode, ZeroConfig)

(* the file names C10 gives for the kinds *)
ExpectedName(mode) ==
    CASE mode = cpuMode -> "cpu.pprof"
      [] mode = memMode -> "mem.pprof"
      [] mode = mutexMode -> "mutex.pprof"
      [] mode = blockMode -> "block.pprof"
      [] mode = traceMode -> "trace.pprof"
      [] mode = threadMode -> "thread.pprof"
      [] mode = goroutineMode -> "goroutine.pprof"

(* the caller has made one Start and after it one Stop on s, and no other *)
StartThenStop(s) ==
    /\ Cardinality(Calls(s, "Start")) = 1
    /\ Cardinality(Calls(s, "Stop")) = 1
    /\ Min(Calls(s, "Start")) < Min(Calls(s, "Stop"))

(* C10: every kind with the default configuration: Start then Stop creates
   exactly one file, ./<default name of the kind>, logs 'enabled' and later
   'disabled' on standard output, and nothing fails: no panic (nothing on
   standard error) and both calls return normally. *)
C10_DefaultStartStop ==
    \A s \in Sessions :
        (DefaultConfigured(s) /\ StartThenStop(s)) =>
            /\ files = {Clean(<<".", ExpectedName(prof[s].mode)>>)}
            /\ Count(s, "create") = 1
            /\ \E i \in Within(Min(Calls(s, "Start"))) :
                 \E j \in Within(Min(Calls(s, "Stop"))) :
                   /\ trace[i].ev = "stdout" /\ trace[i].lvl = infoLevel
                   /\ trace[i].msg = "enabled"
                   /\ trace[j].ev = "stdout" /\ trace[j].lvl = infoLevel
                   /\ trace[j].msg = "disabled"
            /\ Count(s, "panic") = 0
            /\ trace[RetOf(Min(Calls(s, "Start")))].msg = "ok"
            /\ trace[RetOf(Min(Calls(s, "Stop")))].msg = "ok"

(* a thread session with the default configuration has been started and
   stopped *)
C10_Witness ==
    \E s \in Sessions :
        /\ DefaultConfigured(s) /\ StartThenStop(s)
        /\ prof[s].mode = threadMode

(* the step is a Start of s by the caller that wins its compare-and-swap and
   returns normally *)
StartSucceeds(s) ==
    /\ CallerCalls(s, "Start")
    /\ prof[s].started = 0
    /\ trace'[Len(trace')].msg = "ok"

(* p and every directory above it *)
Prefixes(p) == {SubSeq(p, 1, k) : k \in 1..Len(p)}

(* C11: the file path Start resolves is Join(dir, file name of the kind),
   where dir is a freshly created temporary directory when UseTempPath is
   set, otherwise the configured Path, created with its parents if missing
   (where the file system lets it be created), otherwise the current
   directory when Path is empty. *)
C11_ResolvedPath ==
    [][\A s \in Sessions :
         StartSucceeds(s) =>
            /\ prof'[s].filePath = Join(prof'[s].path, prof[s].fileName)
            /\ prof[s].useTempPath =>
                 /\ Parent(prof'[s].path) = TmpRoot
                 /\ prof'[s].path \notin dirs
                 /\ prof'[s].path \in dirs'
            /\ (~prof[s].useTempPath /\ prof[s].path \notin {<<>>, DefaultPath}) =>
                 /\ prof'[s].path = prof[s].path
                 /\ MkdirAll(dirs, prof[s].path).ok => Prefixes(prof[s].path) \subseteq dirs'
            /\ (~prof[s].useTempPath /\ prof[s].path \in {<<>>, DefaultPath}) =>
                 /\ prof'[s].path = DefaultPath
                 /\ prof'[s].filePath = <<prof[s].fileName>>]_vars

(* C12: with PanicIfFail off no failure in Start or Stop (directory
   preparation, file creation, collector start, snapshot lookup, flush,
   close) panics or ends the process: every call returns normally, and
   every failure is followed at once by its error-level message, unless
   Quiet is set. *)
C12_FailuresAreLoggedNotFatal ==
    \A i \in Idx :
        (trace[i].s \in Sessions /\ ~prof[trace[i].s].panicIfFail) =>
            /\ trace[i].ev # "panic"
            /\ trace[i].ev = "ret" => trace[i].msg = "ok"
            /\ (trace[i].ev = "fail" /\ ~prof[trace[i].s].quiet) =>
                  /\ i < Len(trace)
                  /\ trace[i + 1].s = trace[i].s
                  /\ trace[i + 1].ev \in LogEvents
                  /\ trace[i + 1].lvl = errorLevel

(* the failures that have happened to session s *)
Failures(s) == {trace[i].msg : i \in {k \in Idx : trace[k].s = s /\ trace[k].ev = "fail"}}

(* a session without PanicIfFail whose directory could not be made has been
   started and stopped: preparation, creation, flush and close have failed *)
C12_Witness ==
    \E s \in Sessions :
        /\ ~prof[s].panicIfFail /\ ~prof[s].quiet
        /\ {"MkdirAll", "Create", "WriteTo", "Close"} \subseteq Failures(s)
        /\ JustStopped(s)

(* the failures Start can meet: directory preparation, file creation, start
   of the CPU or trace collector *)
StartFailures == {"MkdirAll", "TempDir", "Create", "StartCPUProfile", "trace.Start"}

(* the events the step adds to the history *)
NewEvents == (Len(trace) + 1)..Len(trace')

(* C13: with PanicIfFail set, a failure of directory preparation, of file
   creation or of the start of the CPU or trace collector makes Start panic
   with that error, after the error has been logged (unless Quiet) and
   before 'enabled' is logged or a stop closure installed; a failure in
   Stop (lookup, flush, close) never panics. *)
C13_PanicIfFail ==
    [][\A k \in NewEvents :
         (trace'[k].ev = "fail" /\ prof[trace'[k].s].panicIfFail) =>
            LET s == trace'[k].s
                q == IF prof[s].quiet THEN k ELSE k + 1 IN
            IF trace'[k].msg \in StartFailures
            THEN /\ Len(trace') = q + 2
                 /\ ~prof[s].quiet =>
                      trace'[k + 1].ev \in LogEvents /\ trace'[k + 1].lvl = errorLevel
                 /\ trace'[q + 1].ev = "panic" /\ trace'[q + 1].msg = trace'[k].msg
                 /\ trace'[q + 2].ev = "ret" /\ trace'[q + 2].msg = "panic"
                 /\ \A j \in NewEvents : trace'[j].msg # "enabled"
                 /\ prof'[s].internalCloser = prof[s].internalCloser
            ELSE /\ trace'[Len(trace')].ev = "ret" /\ trace'[Len(trace')].msg = "ok"
                 /\ \A j \in NewEvents : trace'[j].ev # "panic"]_vars

(* a session with PanicIfFail has met a failure in Stop, which returned,
   and a failure in Start, which panicked *)
C13_Witness ==
    \E s \in Sessions :
        /\ prof[s].panicIfFail
        /\ Failures(s) \cap StartFailures # {}
        /\ Failures(s) \ StartFailures # {}
        /\ Count(s, "panic") > 0

(* a session with PanicIfFail found its collector already started by the
   application, and its Start panicked *)
C13_CollectorFailure ==
    \E s \in Sessions :
        /\ prof[s].panicIfFail
        /\ Failures(s) \cap {"StartCPUProfile", "trace.Start"} # {}
        /\ Count(s, "panic") > 0

(* C14: when directory preparation or file creation fails in Start without
   PanicIfFail, profiling is not active afterwards: the step starts no
   collector of the runtime, changes no global knob and logs no 'enabled'. *)
C14_FailedStartIsInactive ==
    [][\A k \in NewEvents :
         ( /\ trace'[k].ev = "fail"
           /\ trace'[k].msg \in {"MkdirAll", "TempDir", "Create"}
           /\ ~prof[trace'[k].s].panicIfFail ) =>
              /\ rt' = rt
              /\ \A j \in NewEvents : trace'[j].msg # "enabled"]_vars

(* the events of session s from the Start that won at i up to its next
   Start that wins *)
Lifetime(s, i) ==
    LET later == {j \in (i + 1)..Len(trace) :
                     trace[j].s = s /\ trace[j].ev = "Start" /\ trace[j].msg = "win"}
        end == IF later = {} THEN Len(trace) ELSE Min(later) - 1 IN
    {k \in (i + 1)..end : trace[k].s = s}

(* C15: with the interrupt hook, however the listener's Stop and the
   caller's Stops are ordered, the stop work of a started session (stop and
   flush, close, knob restore, closer hook) is done exactly once: the first
   Stop, the caller's or the listener's, does it and every other one,
   a listener's after a late signal included, does nothing. *)
C15_StopWorkOnceWithListener ==
    \A s \in Sessions :
        prof[s].enableInterruptHook =>
            \A i \in Wins(s, "Start") :
                trace[RetOf(i)].msg = "ok" =>
                    LET life == Lifetime(s, i)
                        stops == {k \in life : trace[k].ev = "Stop"}
                        N(ev) == Cardinality({k \in life : trace[k].ev = ev}) IN
                    /\ N("closer") = (IF stops = {} THEN 0 ELSE 1)
                    /\ N("hook") = (IF stops # {} /\ prof[s].closerHook THEN 1 ELSE 0)
                    /\ N("close") <= 1
                    /\ Cardinality({k \in life : trace[k].ev = "rt" /\ k > RetOf(i)}) <= 1
                    /\ \A k \in stops :
                         IF k = Min(stops)
                         THEN trace[k].msg = "win"
                         ELSE trace[k].msg = "noop" /\ RetOf(k) = k + 1

(* the caller stopped a session with the interrupt hook and a closer hook;
   then a signal came and the listener's Stop found nothing to do *)
C15_Witness ==
    \E s \in Sessions :
        /\ prof[s].enableInterruptHook /\ prof[s].closerHook
        /\ \E i \in Wins(s, "Stop") : \E j \in Calls(s, "Stop") :
              /\ trace[i].lvl = "caller"
              /\ trace[j].lvl = "listener" /\ trace[j].msg = "noop"
              /\ i < j

(* the listener stopped a session with the interrupt hook and the caller's
   Stop after it found nothing to do *)
C15_ListenerFirst ==
    \E s \in Sessions :
        /\ prof[s].enableInterruptHook
        /\ \E i \in Wins(s, "Stop") : \E j \in Calls(s, "Stop") :
              /\ trace[i].lvl = "listener"
              /\ trace[j].lvl = "caller" /\ trace[j].msg = "noop"
              /\ i < j

(* session s, with the interrupt hook, is running at event k of the
   history: a Start has won and returned normally before k and no Stop has
   been called since *)
RunningAt(s, k) ==
    /\ prof[s].enableInterruptHook
    /\ \E i \in Wins(s, "Start") :
         /\ RetOf(i) < k
         /\ trace[RetOf(i)].msg = "ok"
         /\ \A j \in Calls(s, "Stop") : j < i \/ j > k

(* C16: with the interrupt hook and no Stop by the caller, a SIGTERM/SIGINT
   delivered at any moment after Start has returned is never lost: the
   process lives on and the session's listener has received the signal, so
   that, scheduled fairly, it stops the session and flushes the file. *)
C16_SignalNeverLost ==
    \A k \in Idx : \A s \in Sessions :
        (trace[k].ev = "signal" /\ RunningAt(s, k)
            /\ \A j \in Calls(s, "Stop") : trace[j].lvl # "caller")
        => /\ alive
           /\ \/ lst[s].caught > 0
              \/ \E j \in Calls(s, "Stop") : j > k /\ trace[j].lvl = "listener"

(* the parts of the runtime a kind uses: its collector or its knob *)
UsedBy(mode, r) ==
    CASE mode = cpuMode -> r.cpu
      [] mode = memMode -> r.MemProfileRate
      [] mode = mutexMode -> r.mutexFraction
      [] mode = blockMode -> r.blockRate
      [] mode = traceMode -> r.trace
      [] OTHER -> <<>>

(* C17: sessions of different kinds are independent: a Start or Stop on one
   session leaves the other session's started flag, file handle, file path
   and stop closure (all its fields) as they were, the file it has open
   untouched, and does not change the collector or the knob of the runtime
   that the other's kind uses. *)
C17_KindsIndependent ==
    [][\A s, o \in Sessions :
         ( /\ s # o /\ Built(s) /\ Built(o)
           /\ prof[s].mode # prof[o].mode
           /\ CallerCalls(s, "Start") \/ CallerCalls(s, "Stop") ) =>
              /\ prof'[o] = prof[o]
              /\ prof[o].file # NilFile => handles'[prof[o].file] = handles[prof[o].file]
              /\ UsedBy(prof[o].mode, rt') = UsedBy(prof[o].mode, rt)
              /\ lst'[o] = lst[o]]_vars

(* two sessions of different kinds are running together, and then one of
   them has been stopped *)
C17_Witness ==
    \E s, o \in Sessions :
        /\ s # o /\ prof[s].mode # prof[o].mode
        /\ Built(s) /\ Built(o)
        /\ \E i \in Wins(s, "Start"), j \in Wins(o, "Start"), k \in Wins(s, "Stop") :
              i < k /\ j < k
        /\ prof[o].started = 1 /\ FileOpen(o)

(* the exit code README.md gives for a failure *)
DocumentedExitCode(failure) ==
    CASE failure \in {"MkdirAll", "TempDir"} -> 11
      [] failure = "Create" -> 12
      [] failure = "StartCPUProfile" -> 13
      [] failure = "trace.Start" -> 14
      [] OTHER -> 0

(* C18: when a profiling failure ends the process, the exit code names the
   failure: 11 path preparation, 12 file creation, 13 CPU profile start,
   14 trace profile start. *)
C18_ExitCodes ==
    EndedByFailure =>
        ExitStatus = DocumentedExitCode(trace[Len(trace) - 1].msg)

(* C19: MemProfile(cfg) gives a session whose memory rate is
   cfg.MemProfileRate when that is > 0 and 4096 otherwise (zero or
   negative), whose memory type is cfg.MemProfileType when that is not
   empty and 'heap' otherwise, and whose lookup name is that memory type. *)
C19_MemProfileDefaults ==
    \A i \in Idx :
        (trace[i].ev = "construct" /\ trace[i].msg = memMode) =>
            LET p == prof[trace[i].s]
                rate == trace[i].n
                type == trace[i].lvl IN
            /\ p.memProfileRate = (IF rate > 0 THEN rate ELSE 4096)
            /\ p.memProfileType = (IF type # "" THEN type ELSE "heap")
            /\ p.lookupName = p.memProfileType

(* a memory session has been built from a negative rate and the allocs type *)
C19_Witness ==
    \E i \in Idx :
        /\ trace[i].ev = "construct" /\ trace[i].msg = memMode
        /\ trace[i].n < 0 /\ trace[i].lvl = "allocs"
        /\ prof[trace[i].s].mode = memMode

(* the method of the logger that C20 gives for a level *)
MethodFor(level, kind) ==
    LET name == CASE level = "debug" -> "Debug"
                  [] level = "info" -> "Info"
                  [] level = "warn" -> "Warn"
                  [] level = "error" -> "Error"
                  [] level = "fatal" -> "Fatal" IN
    "logger." \o name \o (IF kind = "formatted" THEN "f" ELSE "")

(* C20: with Quiet off every message raised at a level L is delivered
   exactly once: with an injected logger by the logger's method for L (the
   formatted one for a formatted message) and with no line printed; with no
   logger as one line '[L] ...' on standard output; never at another
   level. *)
C20_DeliveredOnceAtItsLevel ==
    \A i \in Idx :
        (trace[i].ev = "raise" /\ ~prof[trace[i].s].quiet) =>
            /\ i < Len(trace)
            /\ trace[i + 1].s = trace[i].s
            /\ trace[i + 1].lvl = trace[i].lvl
            /\ trace[i + 1].ev = (IF prof[trace[i].s].logger
                                  THEN MethodFor(trace[i].lvl, trace[i].msg)
                                  ELSE "stdout")
            /\ i + 1 < Len(trace) => trace[i + 2].ev = "raise"

(* a session with an injected logger has raised a plain fatal message, a
   formatted warning and a formatted debug message *)
C20_Witness ==
    \E s \in Sessions :
        /\ prof[s].logger /\ ~prof[s].quiet
        /\ \E i, j, k \in Idx :
              /\ trace[i].ev = "logger.Fatal" /\ trace[i].s = s
              /\ trace[j].ev = "logger.Warnf" /\ trace[j].s = s
              /\ trace[k].ev = "logger.Debugf" /\ trace[k].s = s

(* C21: a constructor does no I/O and changes nothing of the runtime: over
   the step that builds a session the file system, the knobs and collectors
   of the runtime and the listeners are as before, nothing is logged, no
   other session changes, and the new session is Idle (started = 0) and
   carries the caller's Path, UseTempPath, PanicIfFail, EnableInterruptHook,
   Quiet, Logger and CloserHook as given. *)
C21_ConstructorIsPure ==
    [][\A s \in Sessions :
         (prof[s].mode = "none" /\ prof'[s].mode # "none") =>
            LET cfg == trace'[Len(trace')].n
                p == prof'[s] IN
            /\ UNCHANGED <<rt, dirs, files, handles, lst, tmpSeq, alive>>
            /\ \A k \in NewEvents : trace'[k].ev \in {"construct", "config"}
            /\ \A o \in Sessions \ {s} : prof'[o] = prof[o]
            /\ p.started = 0
            /\ p.file = NilFile /\ p.internalCloser = NilFunc
            /\ p.path = cfg.Path
            /\ p.useTempPath = cfg.UseTempPath
            /\ p.panicIfFail = cfg.PanicIfFail
            /\ p.enableInterruptHook = cfg.EnableInterruptHook
            /\ p.quiet = cfg.Quiet
            /\ p.logger = cfg.Logger
            /\ p.closerHook = cfg.CloserHook]_vars

(* a session has been built from a Config with a Path and every option set *)
C21_Witness ==
    \E i \in Idx :
        /\ trace[i].ev = "config"
        /\ trace[i].n.Path # <<>>
        /\ trace[i].n.UseTempPath /\ trace[i].n.PanicIfFail
        /\ trace[i].n.EnableInterruptHook /\ trace[i].n.Quiet
        /\ trace[i].n.Logger /\ trace[i].n.CloserHook
        /\ prof[trace[i].s].mode # "none"

(* the step is a Stop of s in which the lookup of the snapshot found no
   profile; k is where the history records it *)
LookupMissed(s, k) ==
    /\ CallerCalls(s, "Stop")
    /\ k \in NewEvents
    /\ trace'[k].ev = "fail" /\ trace'[k].msg = "Lookup"

(* C22: when the lookup of the snapshot in Stop finds no profile, Stop logs
   an error (unless Quiet), does not panic, and still does every step that
   remains: the file is closed, 'disabled' is logged, the global knob of the
   kind is given back the value it had before the Start that returned
   normally, and the closer hook runs, last. *)
C22_LookupMissGoesOn ==
    [][\A s \in Sessions : \A k \in NewEvents :
         LookupMissed(s, k) =>
            LET start == Max(Wins(s, "Start"))
                last == Len(trace')
                after(ev) == {j \in (k + 1)..last : trace'[j].ev = ev} IN
            /\ trace'[last].ev = "ret" /\ trace'[last].msg = "ok"
            /\ after("panic") = {}
            /\ ~prof[s].quiet =>
                 /\ trace'[k + 1].ev \in LogEvents /\ trace'[k + 1].lvl = errorLevel
                 /\ \E j \in (k + 2)..last :
                      trace'[j].ev \in LogEvents /\ trace'[j].msg = "disabled"
            /\ prof'[s].file # NilFile =>
                 /\ ~handles'[prof'[s].file].open
                 /\ handles[prof[s].file].open =>
                      Cardinality({j \in after("close") : trace'[j].n = prof[s].file}) = 1
            /\ (prof[s].mode = memMode /\ trace[RetOf(start)].msg = "ok") =>
                 rt'.MemProfileRate =
                     KnobBefore(start, "MemProfileRate", AppKnobs.mem, RuntimeKnobs.mem)
            /\ prof[s].closerHook => trace'[last - 1].ev = "hook"
            /\ prof'[s].started = 0]_vars

(* a memory session with a closer hook whose type names no profile was
   started after the application had set the rate, and was stopped *)
C22_Witness ==
    \E s \in Sessions :
        /\ prof[s].mode = memMode /\ prof[s].closerHook
        /\ "Lookup" \in Failures(s)
        /\ JustStopped(s)
        /\ FileOpen(s) = FALSE /\ prof[s].file # NilFile
        /\ KnobBefore(StartOfLastStop(s), "MemProfileRate", AppKnobs.mem, RuntimeKnobs.mem)
              = AppKnobs.mem

(* the collector of the kind of s is running into the file of s *)
CollectorActive(s) ==
    \/ prof[s].mode = cpuMode /\ rt.cpu.on /\ rt.cpu.file = prof[s].file
    \/ prof[s].mode = traceMode /\ rt.trace.on /\ rt.trace.file = prof[s].file

(* the global knob of the kind of s holds what the Start of s gave it, and
   not what a fresh process has *)
KnobChanged(s) ==
    \/ prof[s].mode = memMode /\ rt.MemProfileRate = prof[s].memProfileRate
                              /\ rt.MemProfileRate # RuntimeKnobs.mem
    \/ prof[s].mode = mutexMode /\ rt.mutexFraction # RuntimeKnobs.mutex
    \/ prof[s].mode = blockMode /\ rt.blockRate # RuntimeKnobs.block

(* one Start and one Stop have been called on s, a session that was Idle,
   in any order and interleaving, and both have returned *)
OneStartOneStop(s) ==
    /\ Cardinality(Calls(s, "Start")) = 1
    /\ Cardinality(Calls(s, "Stop")) = 1
    /\ inflight[s] = NoCalls

(* C23: one Start and one Stop called concurrently on an Idle session: once
   both have returned, the session is not left with started = 0 while its
   collector is still running, its global knob still changed or its file
   still open. *)
C23_GuardSufficesForStartStop ==
    \A s \in Sessions :
        OneStartOneStop(s) =>
            ~(prof[s].started = 0 /\ (CollectorActive(s) \/ KnobChanged(s) \/ FileOpen(s)))

(* the Stop won its compare-and-swap after the Start's and found no stop
   closure; both returned and the CPU collector runs on, the flag at 0 *)
C23_StopOvertakesStart ==
    \E s \in Sessions :
        /\ OneStartOneStop(s)
        /\ prof[s].mode = cpuMode
        /\ Wins(s, "Stop") # {} /\ Count(s, "closer") = 0
        /\ prof[s].started = 0 /\ CollectorActive(s) /\ FileOpen(s)

(* the events of session s that are the message msg *)
Logged(s, msg) == {k \in Idx : trace[k].s = s /\ trace[k].ev \in LogEvents /\ trace[k].msg = msg}

(* session s is Running when its Stops are called: its one Start won and
   returned normally before the first of them *)
StopsOnRunning(s) ==
    /\ Cardinality(Calls(s, "Start")) = 1 /\ Wins(s, "Start") # {}
    /\ Calls(s, "Stop") # {}
    /\ \E r \in Idx :
         /\ trace[r].s = s /\ trace[r].ev = "ret" /\ trace[r].msg = "ok"
         /\ r < Min(Calls(s, "Stop"))

(* C24: of any number of Starts called concurrently on an Idle session
   exactly one wins the 0->1 compare-and-swap and does the start work, once;
   of any number of Stops called concurrently on a Running session exactly
   one wins the 1->0 compare-and-swap and does the stop work, once; the
   flag only ever holds 0 or 1. *)
C24_ExactlyOneWins ==
    \A s \in Sessions :
        /\ prof[s].started \in {0, 1}
        /\ (Calls(s, "Start") # {} /\ Calls(s, "Stop") = {}) =>
              /\ Wins(s, "Start") = {Min(Calls(s, "Start"))}
              /\ prof[s].started = 1
              /\ Cardinality({k \in Idx : trace[k].s = s
                                 /\ trace[k].ev = "fail" /\ trace[k].msg = "MkdirAll"}) <= 1
              /\ Count(s, "create") <= 1
              /\ Count(s, "rt") <= 1
              /\ Cardinality(Logged(s, "enabled")) <= 1
              /\ (inflight[s] = NoCalls /\ Count(s, "panic") = 0) =>
                    /\ Count(s, "create") = 1
                    /\ Cardinality(Logged(s, "enabled")) = 1
        /\ StopsOnRunning(s) =>
              /\ Wins(s, "Stop") = {Min(Calls(s, "Stop"))}
              /\ prof[s].started = 0
              /\ Count(s, "closer") <= 1
              /\ Count(s, "hook") <= 1
              /\ Cardinality(Logged(s, "disabled")) <= 1
              /\ inflight[s] = NoCalls =>
                    /\ Count(s, "closer") = 1
                    /\ Cardinality(Logged(s, "disabled")) = 1
                    /\ Count(s, "hook") = (IF prof[s].closerHook THEN 1 ELSE 0)

(* two Stops were called on a Running session with a closer hook, the
   second before the first had begun its stop work; both have returned *)
C24_Witness ==
    \E s \in Sessions :
        /\ StopsOnRunning(s) /\ prof[s].closerHook
        /\ inflight[s] = NoCalls
        /\ \E i, j, k \in Idx :
              /\ i < j /\ j < k
              /\ trace[i].s = s /\ trace[i].ev = "Stop" /\ trace[i].msg = "win"
              /\ trace[j].s = s /\ trace[j].ev = "Stop" /\ trace[j].msg = "noop"
              /\ trace[k].s = s /\ trace[k].ev = "closer"

(* three Starts were called on an Idle session, the second and the third
   before the first had prepared its path *)
C24_ConcurrentStarts ==
    \E s \in Sessions :
        /\ Cardinality(Calls(s, "Start")) = 3 /\ Calls(s, "Stop") = {}
        /\ Count(s, "create") = 1
        /\ \A i \in Calls(s, "Start") : \A k \in Idx : trace[k].ev = "create" => i < k

(* the kinds whose data is a snapshot taken in Stop *)
SnapshotModes == {memMode, mutexMode, blockMode, threadMode, goroutineMode}

(* C25: for every snapshot kind (heap, allocs, mutex, block, thread
   creation, goroutine) the lookup name fixed at construction is one of the
   names the Go runtime registers (goroutine, threadcreate, heap, allocs,
   block, mutex); so a Stop after a Start that created the file writes the
   snapshot of that name into the file and the lookup never misses. *)
C25_LookupNamesAreRegistered ==
    \A s \in Sessions :
        (Built(s) /\ prof[s].mode \in SnapshotModes) =>
            /\ prof[s].lookupName \in
                  {"goroutine", "threadcreate", "heap", "allocs", "block", "mutex"}
            /\ (JustStopped(s) /\ prof[s].file # NilFile) =>
                  /\ "Lookup" \notin Failures(s)
                  /\ \E k \in Within(Max(Wins(s, "Stop"))) :
                        /\ trace[k].ev = "write"
                        /\ trace[k].msg = prof[s].lookupName
                        /\ trace[k].n = prof[s].file

(* the collector of the kind of s is streaming into the file s created *)
Streaming(s) == CollectorActive(s) /\ prof[s].file # NilFile

(* the call begun at event i met no failure *)
NoFailureIn(i) == \A k \in Within(i) : trace[k].ev # "fail"

(* C26: a snapshot kind writes nothing to its file between Start and Stop:
   every write is inside a Stop that won, at most one in each, before the
   close of the file and before the knob is restored.  For CPU and trace
   the collector runs into the session's file from the Start that succeeded
   until the Stop that wins, and not before or after. *)
C26_SnapshotWrittenInStop ==
    \A s \in Sessions :
        /\ prof[s].mode \in SnapshotModes =>
              \A k \in Idx :
                  (trace[k].s = s /\ trace[k].ev = "write") =>
                      \E i \in Wins(s, "Stop") :
                          /\ i < k /\ k < RetOf(i)
                          /\ \A j \in Within(i) :
                                /\ trace[j].ev = "write" => j = k
                                /\ trace[j].ev \in {"close", "rt"} => k < j
        /\ prof[s].mode \in {cpuMode, traceMode} =>
              IF Wins(s, "Start") = {}
              THEN ~Streaming(s)
              ELSE LET i == Max(Wins(s, "Start"))
                       stopped == \E j \in Wins(s, "Stop") : j > i IN
                   /\ (trace[RetOf(i)].msg = "ok" /\ NoFailureIn(i) /\ ~stopped) =>
                         Streaming(s) /\ FileOpen(s)
                   /\ stopped => ~Streaming(s)

(* a memory session was started after the application had set the rate and
   has been stopped, its snapshot written *)
C26_Witness ==
    \E s \in Sessions :
        /\ prof[s].mode = memMode /\ JustStopped(s)
        /\ \E k \in Within(Max(Wins(s, "Stop"))) : trace[k].ev = "write"
        /\ KnobBefore(StartOfLastStop(s), "MemProfileRate", AppKnobs.mem, RuntimeKnobs.mem)
              = AppKnobs.mem

(* a CPU session was started, ran, and has been stopped *)
C26_Streaming ==
    \E s \in Sessions :
        /\ prof[s].mode = cpuMode /\ JustStopped(s)
        /\ NoFailureIn(StartOfLastStop(s))
        /\ \E k \in Within(Max(Wins(s, "Stop"))) :
              trace[k].ev = "rt" /\ trace[k].msg = "StopCPUProfile"

(* C27: when directory preparation fails (the custom directory or the
   temporary directory cannot be made) without PanicIfFail, the start is
   aborted: Start does not try to create the output file, and no file
   exists anywhere because of that Start. *)
C27_NoFileAfterFailedDirectory ==
    [][\A k \in NewEvents :
         ( /\ trace'[k].ev = "fail"
           /\ trace'[k].msg \in {"MkdirAll", "TempDir"}
           /\ ~prof[trace'[k].s].panicIfFail ) =>
              /\ \A j \in NewEvents :
                    ~(trace'[j].ev = "create" \/ (trace'[j].ev = "fail" /\ trace'[j].msg = "Create"))
              /\ files' = files]_vars

(* the temporary directory could not be made, and the Start created the
   file in the current directory *)
C27_FileInCurrentDirectory ==
    \E s \in Sessions :
        /\ prof[s].useTempPath /\ ~prof[s].panicIfFail
        /\ "TempDir" \in Failures(s)
        /\ <<prof[s].fileName>> \in files

(* the events that touch a file: os.Create (which truncates), a write, a close *)
FileEvents == {"create", "write", "close"}

(* the paths of the files session s has created, written or closed *)
Touched(s) == {trace[i].path : i \in {k \in Idx : trace[k].s = s /\ trace[k].ev \in FileEvents}}

(* C28: sessions of different kinds that resolve to the same directory
   never share a file path: the seven file names are pairwise different, so
   no two such sessions create (truncate), write or close the same file or
   hold the same handle, in whatever order they are started and stopped. *)
C28_KindsHaveOwnFiles ==
    \A s, o \in Sessions :
        (s # o /\ Built(s) /\ Built(o) /\ prof[s].mode # prof[o].mode) =>
            /\ prof[s].fileName # prof[o].fileName
            /\ (prof[s].file # NilFile /\ prof[o].file # NilFile) =>
                  /\ prof[s].file # prof[o].file
                  /\ handles[prof[s].file].path # handles[prof[o].file].path
            /\ \A p \in Touched(s) : \A q \in Touched(o) :
                  Parent(p) = Parent(q) => p # q

(* a mutex and a block session with the default directory are running
   together, each with its file open in the current directory *)
C28_Witness ==
    \E s, o \in Sessions :
        /\ prof[s].mode = mutexMode /\ prof[o].mode = blockMode
        /\ prof[s].started = 1 /\ prof[o].started = 1
        /\ FileOpen(s) /\ FileOpen(o)
        /\ Parent(prof[s].filePath) = Parent(prof[o].filePath)

(* the global memory rate before event i of the history *)
MemRateBefore(i) == KnobBefore(i, "MemProfileRate", AppKnobs.mem, RuntimeKnobs.mem)

(* memory sessions a and b have each been started and stopped once, a
   started first, and the Stop at event last has just returned *)
BothStopped(a, b, last) ==
    /\ a # b /\ prof[a].mode = memMode /\ prof[b].mode = memMode
    /\ Cardinality(Wins(a, "Start")) = 1 /\ Cardinality(Wins(b, "Start")) = 1
    /\ Cardinality(Wins(a, "Stop")) = 1 /\ Cardinality(Wins(b, "Stop")) = 1
    /\ Min(Wins(a, "Start")) < Min(Wins(b, "Start"))
    /\ Min(Wins(b, "Start")) < Min(Wins(a, "Stop"))
    /\ Min(Wins(b, "Start")) < Min(Wins(b, "Stop"))
    /\ last = Max(Wins(a, "Stop") \cup Wins(b, "Stop"))
    /\ trace[Len(trace)].ev = "ret"
    /\ \A k \in Idx : k > last => trace[k].ev # "app"

(* C29: two memory sessions a and b, g the global rate before a's Start:
   nested (a.Start, b.Start, b.Stop, a.Stop), the rate after both Stops is
   g; overlapping (a.Start, b.Start, a.Stop, b.Stop), the rate after both
   Stops is what b saved at its Start, the rate a had set, and not g. *)
C29_NestedRestoresOverlapDoesNot ==
    \A a, b \in Sessions :
        /\ BothStopped(a, b, Min(Wins(a, "Stop"))) =>
              rt.MemProfileRate = MemRateBefore(Min(Wins(a, "Start")))
        /\ BothStopped(a, b, Min(Wins(b, "Stop"))) =>
              /\ rt.MemProfileRate = MemRateBefore(Min(Wins(b, "Start")))
              /\ (\A k \in Idx : trace[k].ev # "app") =>
                    /\ rt.MemProfileRate = prof[a].memProfileRate
                    /\ rt.MemProfileRate # MemRateBefore(Min(Wins(a, "Start")))

(* the overlapping order has been run and the global rate is not what it
   was before the first Start *)
C29_Witness ==
    \E a, b \in Sessions :
        /\ BothStopped(a, b, Min(Wins(b, "Stop")))
        /\ rt.MemProfileRate # MemRateBefore(Min(Wins(a, "Start")))

(* the nested order has been run, the application having set the rate
   before the first Start *)
C29_Nested ==
    \E a, b \in Sessions :
        /\ BothStopped(a, b, Min(Wins(a, "Stop")))
        /\ MemRateBefore(Min(Wins(a, "Start"))) = AppKnobs.mem
        /\ rt.MemProfileRate = AppKnobs.mem

(* the events of session s that the step adds to the history *)
NewOf(s, ev) == {k \in NewEvents : trace'[k].s = s /\ trace'[k].ev = ev}

(* C30: the interrupt listener is launched only by a Start that wins the
   0->1 transition on a session with EnableInterruptHook, once, as the last
   thing before Start returns, after the start of the kind has installed
   the stop closure (and logged 'enabled'); so a Stop by the listener finds
   the closure and, when it wins, runs it.  Without EnableInterruptHook
   there is never a listener, and the flag goes from 1 to 0 only in a Stop
   called by the caller. *)
C30_ListenerLaunchedAfterClosure ==
    [][\A s \in Sessions :
         /\ lst'[s].spawned > lst[s].spawned => NewOf(s, "spawn") # {}
         /\ NewOf(s, "spawn") # {} =>
               /\ CallerCalls(s, "Start") /\ prof[s].started = 0
               /\ prof[s].enableInterruptHook
               /\ prof'[s].internalCloser # NilFunc
               /\ NewOf(s, "spawn") = {Len(trace') - 1}
               /\ lst'[s].spawned = lst[s].spawned + 1
               /\ ~prof[s].quiet =>
                     \E j \in NewEvents :
                         /\ trace'[j].ev \in LogEvents /\ trace'[j].msg = "enabled"
                         /\ j < Len(trace') - 1
         /\ \A k \in NewOf(s, "Stop") :
               trace'[k].lvl = "listener" =>
                   /\ prof[s].enableInterruptHook
                   /\ prof[s].internalCloser # NilFunc
                   /\ trace'[k].msg = "win" => trace'[k + 1].ev = "closer"
         /\ ~prof[s].enableInterruptHook =>
               /\ lst'[s] = NoListeners
               /\ (prof[s].started = 1 /\ prof'[s].started = 0) => CallerCalls(s, "Stop")]_vars

(* the listener of a session, launched by its one Start that won, caught a
   signal, won the Stop and ran the stop closure *)
C30_Witness ==
    \E s \in Sessions :
        /\ prof[s].enableInterruptHook
        /\ Count(s, "spawn") = 1
        /\ \E i \in Wins(s, "Stop") :
              trace[i].lvl = "listener" /\ trace[i + 1].ev = "closer"

----------------------------------------------------------------------------
(* C31: in the current lineage the interrupt listener never ends the
   process.  A step in which a listener acts on the signal leaves the process
   alive, begins with the warning "caught interrupt signal" (unless the
   session is Quiet), holds exactly one call of Stop, by the listener, which
   returns normally, and consumes that listener for good: it does not register
   or park again.  Whenever the process has ended, the last thing that
   happened was a signal nobody listened to or a panic in a call of the
   caller, never a listener. *)
ListenerStops(s) == {k \in NewOf(s, "Stop") : trace'[k].lvl = "listener"}

C31_ListenerLeavesExitToCaller ==
    [][ /\ ~alive' => trace'[Len(trace')].lvl # "listener"
        /\ \A s \in Sessions :
             ListenerStops(s) # {} =>
               LET first == trace'[Len(trace) + 1]
                   last == trace'[Len(trace')] IN
               /\ alive /\ alive'
               /\ Cardinality(ListenerStops(s)) = 1
               /\ NewOf(s, "Stop") = ListenerStops(s)
               /\ IF prof[s].quiet
                  THEN first.ev = "Stop"
                  ELSE /\ first.ev \in LogEvents
                       /\ first.lvl = warnLevel
                       /\ first.msg = "caught interrupt signal"
                       /\ trace'[Len(trace) + 2].ev = "Stop"
               /\ last.ev = "ret" /\ last.lvl = "listener" /\ last.msg = "ok"
               /\ lst'[s] = [lst[s] EXCEPT !.caught = @ - 1]
      ]_vars

(* a listener has warned and won its Stop, and the process lives on *)
C31_Witness ==
    /\ alive
    /\ \E i \in Idx : trace[i].ev = "Stop" /\ trace[i].lvl = "listener"
                       /\ trace[i].msg = "win"
    /\ \E i \in Idx : trace[i].ev \in LogEvents /\ trace[i].lvl = warnLevel
                       /\ trace[i].msg = "caught interrupt signal"
    /\ trace[Len(trace)].ev = "ret" /\ trace[Len(trace)].lvl = "listener"

----------------------------------------------------------------------------
(* C32: in the earlier lineage, once a shutdown-hook listener has called
   Stop on a Running session (its Stop won the compare-and-swap), the
   process has ended with exit code 0, whatever the ProfileConfig, one with
   no CloserHook included. *)
C32_ListenerExitsWithZero ==
    \A i \in Idx :
        trace[i].ev = "Stop" /\ trace[i].lvl = "listener" /\ trace[i].msg = "win"
        => ~alive /\ ExitStatus = 0

----------------------------------------------------------------------------
(* C33: the Stop of a CPU (or trace) session whose own collector could not
   start, because another session of the same kind holds the collector of the
   process, leaves that other session's collector running: a session that
   is collecting into its file before a winning Stop of another session of
   its kind is still collecting into its file after it. *)
C33_FailedSessionStopSparesCollector ==
    [][ \A a, b \in Sessions :
          ( /\ a # b /\ prof[a].mode = prof[b].mode
            /\ Streaming(a)
            /\ "StartCPUProfile" \in Failures(b) \/ "trace.Start" \in Failures(b)
            /\ \E k \in NewOf(b, "Stop") : trace'[k].msg = "win" )
          => Streaming(a)'
      ]_vars

----------------------------------------------------------------------------
(* C34: a Start without PanicIfFail whose directory or file step failed
   leaves the session started, and the Stop that follows wins, runs the closer
   hook once (when there is one) and leaves the absent file alone: inside
   that Stop no write to and no close of a missing file is attempted, so that
   none fails and none is logged as an error. *)
DirOrFileFailed(i) ==
    \E k \in Within(i) : trace[k].ev = "fail" /\ trace[k].msg \in {"MkdirAll", "TempDir", "Create"}

C34_StopAfterFailedStartIsQuiet ==
    \A s \in Sessions :
        (JustStopped(s) /\ ~prof[s].panicIfFail /\ DirOrFileFailed(StartOfLastStop(s)))
        => LET stop == Within(Max(Wins(s, "Stop"))) IN
           /\ Cardinality({k \in stop : trace[k].ev = "hook"})
                 = (IF prof[s].closerHook THEN 1 ELSE 0)
           /\ \A k \in stop :
                 trace[k].ev = "fail" => trace[k].msg \notin {"WriteTo", "Close"}

----------------------------------------------------------------------------
(* C35: with both Path and UseTempPath configured, UseTempPath wins.  In the
   first Start of such a session the only directory made is a fresh
   temporary directory, the output file is created in that directory, and
   the configured Path is neither made nor tried nor part of the file path. *)
FirstStartWithBoth(s) ==
    /\ CallerCalls(s, "Start")
    /\ Wins(s, "Start") = {}
    /\ prof[s].useTempPath /\ prof[s].path # <<>>

C35_TempPathTakesPrecedence ==
    [][\A s \in Sessions :
         FirstStartWithBoth(s) =>
            /\ \A d \in dirs' \ dirs : Parent(d) = TmpRoot
            /\ \A k \in NewEvents :
                  /\ ~(trace'[k].ev = "fail" /\ trace'[k].msg = "MkdirAll")
                  /\ trace'[k].ev \in FileEvents =>
                        /\ Parent(trace'[k].path) # Clean(prof[s].path)
                        /\ Parent(trace'[k].path) \in dirs' \ dirs
      ]_vars

----------------------------------------------------------------------------
(* C36: as long as no Start of a session has won the 0->1 transition, its
   file handle, its resolved file path and its stop closure are absent; and
   a step changes one of the three only if a Start of the session wins in
   that step. *)
Absent(p) == p.file = NilFile /\ p.filePath = <<>> /\ p.internalCloser = NilFunc

StartHasWon(tr, s) ==
    \E k \in 1..Len(tr) : tr[k].s = s /\ tr[k].ev = "Start" /\ tr[k].msg = "win"

C36_AbsentUntilStart ==
    [][\A s \in Sessions :
         /\ ~StartHasWon(trace', s) => Absent(prof'[s])
         /\ ( \/ prof'[s].file # prof[s].file
              \/ prof'[s].filePath # prof[s].filePath
              \/ prof'[s].internalCloser # prof[s].internalCloser )
            => \E k \in NewOf(s, "Start") : trace'[k].msg = "win"
      ]_vars

(* a session has been built and Stop has been called on it without a Start
   ever having won: the three are absent *)
C36_Witness ==
    \E s \in Sessions :
        /\ Built(s) /\ ~StartHasWon(trace, s)
        /\ Calls(s, "Stop") # {}
        /\ Absent(prof[s])

(* a Start has won and the three are present *)
C36_Present ==
    \E s \in Sessions :
        /\ StartHasWon(trace, s)
        /\ prof[s].file # NilFile /\ prof[s].filePath # <<>>
        /\ prof[s].internalCloser # NilFunc

====
